---- MODULE Spec2Model ----
(***************************************************************************)
(* Vaccine-chain chaincode (src/vaccinechain.go, second revision starting  *)
(* at line 1013): parties, products, batches, units ("assets"), receipts   *)
(* and the three custody transfers, over a keyed ledger with per-key       *)
(* history.  One action per chaincode function; an invocation either       *)
(* returns an error (nothing is committed) or returns nil (its write set   *)
(* is committed as a whole).                                               *)
(***************************************************************************)
EXTENDS Integers, Sequences, FiniteSets, TLC

VARIABLES ledger,    \* world state: key -> stored document
          history,   \* flat keys only: key -> sequence of revisions
          txCount,   \* number of committed invocations (source of GetTxID)
          last,      \* outcome and response of the most recent invocation
          storeFails, \* whether the record store of this run may reject a PutState
          pending,   \* concurrent runs: endorsed invocations not yet committed
          version,   \* concurrent runs: key -> transaction that wrote it last
          loop       \* position of AddBatch's unit-generation loops when stepped

vars == <<ledger, history, txCount, last, storeFails, pending, version, loop>>

(***************************************************************************)
(* Bounds                                                                  *)
(***************************************************************************)
MaxTx == 6
MaxCartons == 1
MaxCapacity == 2

(***************************************************************************)
(* Constants of package vaccinechainhelper, as the chaincode names them    *)
(***************************************************************************)
SUPER_ADMIN == "admin"
VACCINE_CHAIN_ADMIN == "VACCINE_CHAIN_ADMIN"
MANUFACTURER == "MANUFACTURER"
DISTRIBUTER == "DISTRIBUTER"
CHEMIST == "CHEMIST"
ITEM == "ITEM"
ASSET == "ASSET"
RECEIPT == "RECEIPT"
ReadyForDistribution == "ReadyForDistribution"
ReceivedAtDistributor == "ReceivedAtDistributor"
ChemistInventoryReceived == "ChemistInventoryReceived"
SoldToCustomer == "SoldToCustomer"

(***************************************************************************)
(* Conversions                                                             *)
(***************************************************************************)
Digit(d) == CASE d = 0 -> "0" [] d = 1 -> "1" [] d = 2 -> "2" [] d = 3 -> "3"
              [] d = 4 -> "4" [] d = 5 -> "5" [] d = 6 -> "6" [] d = 7 -> "7"
              [] d = 8 -> "8" [] d = 9 -> "9"

RECURSIVE Itoa(_)
Itoa(n) == IF n < 0 THEN "-" \o Itoa(-n)
           ELSE IF n < 10 THEN Digit(n)
           ELSE Itoa(n \div 10) \o Digit(n % 10)

Int16(n) == ((n + 32768) % 65536) - 32768

(***************************************************************************)
(* Documents.  A stored document is a record holding the JSON members that *)
(* were marshalled; decoding into a struct keeps the members the struct    *)
(* declares and zeroes the others.                                         *)
(***************************************************************************)
Nil == [nil |-> TRUE]
IsNil(d) == "nil" \in DOMAIN d

Field(d, f, zero) == IF f \in DOMAIN d THEN d[f] ELSE zero

Entity(d) == [id |-> Field(d, "id", ""),
              licenseNo |-> Field(d, "licenseNo", ""),
              suspended |-> Field(d, "suspended", FALSE),
              batchCount |-> Field(d, "batchCount", 0),
              docType |-> Field(d, "docType", "")]

Product(d) == [id |-> Field(d, "id", ""),
               price |-> Field(d, "price", 0),
               cartonCapacity |-> Field(d, "cartonCapacity", 0),
               packetCapacity |-> Field(d, "packetCapacity", 0),
               docType |-> Field(d, "docType", ""),
               suspended |-> Field(d, "suspended", FALSE),
               owner |-> Field(d, "owner", "")]

Batch(d) == [id |-> Field(d, "id", ""),
             owner |-> Field(d, "owner", ""),
             productId |-> Field(d, "productId", ""),
             manufacturingDate |-> Field(d, "manufacturingDate", 0),
             expiryDate |-> Field(d, "expiryDate", 0),
             cartonQnty |-> Field(d, "cartonQnty", 0)]

Asset(d) == [id |-> Field(d, "id", ""),
             batchId |-> Field(d, "batchId", ""),
             cartonId |-> Field(d, "cartonId", ""),
             owner |-> Field(d, "owner", ""),
             status |-> Field(d, "status", ""),
             productId |-> Field(d, "productId", ""),
             manufacturerId |-> Field(d, "manufacturerId", ""),
             manufacturingDate |-> Field(d, "manufacturingDate", 0),
             expiryDate |-> Field(d, "expiryDate", 0),
             docType |-> Field(d, "docType", "")]

Receipt(d) == [id |-> Field(d, "id", ""),
               bundleId |-> Field(d, "bundleId", ""),
               docType |-> Field(d, "docType", ""),
               supplierId |-> Field(d, "supplierId", ""),
               customerId |-> Field(d, "customerId", ""),
               productId |-> Field(d, "productId", ""),
               billAmount |-> Field(d, "billAmount", 0)]

(***************************************************************************)
(* Ledger access                                                           *)
(***************************************************************************)
CompositeKey(id, docType) == <<id, docType>>
FlatKey(id) == <<id>>
IsFlat(k) == Len(k) = 1

GetState(l, k) == IF k \in DOMAIN l THEN l[k] ELSE Nil

\* rich query: every stored document that carries each selector member with
\* the selector's value
GetQueryResult(l, selector) ==
    {k \in DOMAIN l : \A f \in DOMAIN selector :
                          f \in DOMAIN l[k] /\ l[k][f] = selector[f]}

IsExist(l, id, docType) == GetState(l, CompositeKey(id, docType))

SuspendStatus(d) == Field(d, "suspended", FALSE)

\* the record when it exists and is not suspended, otherwise a failure
IsActiveErr(l, id, docType) ==
    IF IsNil(IsExist(l, id, docType)) THEN "NotFound"
    ELSE IF SuspendStatus(IsExist(l, id, docType)) THEN "NotActive"
    ELSE ""

IsActive(l, id, docType) ==
    IF IsActiveErr(l, id, docType) = "" THEN IsExist(l, id, docType) ELSE Nil

\* key under which insertData stores a document
InsertKey(id, docType) ==
    IF docType # "" THEN CompositeKey(id, docType) ELSE FlatKey(id)

GetTxID(n) == "tx" \o Itoa(n)

(***************************************************************************)
(* Results of an invocation                                                *)
(***************************************************************************)
NoWrites == << >>
NoEvent == [name |-> ""]
NoOutput == [none |-> TRUE]

Fail(err) == [ok |-> FALSE, err |-> err, writes |-> NoWrites,
              event |-> NoEvent, fault |-> "none"]
FailAt(err, fault) == [ok |-> FALSE, err |-> err, writes |-> NoWrites,
                       event |-> NoEvent, fault |-> fault]
Done(writes, event, fault) == [ok |-> TRUE, err |-> "", writes |-> writes,
                               event |-> event, fault |-> fault]

\* writes are sequences of <<key, document>> in program order
RECURSIVE Apply(_, _)
Apply(l, writes) ==
    IF writes = << >> THEN l
    ELSE LET k == Head(writes)[1]
             v == Head(writes)[2]
         IN Apply([x \in DOMAIN l \cup {k} |-> IF x = k THEN v ELSE l[x]],
                  Tail(writes))

RECURSIVE Record(_, _, _)
Record(h, writes, txid) ==
    IF writes = << >> THEN h
    ELSE LET k == Head(writes)[1]
             v == Head(writes)[2]
             rev == [value |-> v, txId |-> txid, isDelete |-> FALSE]
         IN IF IsFlat(k)
            THEN Record([x \in DOMAIN h \cup {k} |->
                            IF x = k
                            THEN (IF k \in DOMAIN h THEN h[k] ELSE << >>) \o <<rev>>
                            ELSE h[x]],
                        Tail(writes), txid)
            ELSE Record(h, Tail(writes), txid)

\* the functions that only read the ledger
Views == {"GetProductsByManufacturer", "GetAssetByEntity", "ViewProfileDetails",
          "ViewReceipt", "TrackPacket"}

NoInput == [x |-> 0]

\* the unit-generation loops are not being stepped
NoLoop == [pc |-> "none"]

\* no invocation is in progress
Idle == [op |-> "init", name |-> "", role |-> "", in |-> NoInput,
         ok |-> TRUE, err |-> "", fault |-> "none", event |-> NoEvent,
         txId |-> "", out |-> NoOutput]

\* Invocations are serialized: the next one starts when the response of the
\* previous one has been returned.  An invocation that returned nil is
\* committed with its whole write set; one that returned an error commits
\* nothing.  Reading and committing are one step here, so no version is
\* kept; the concurrent runs further down separate the two.
Ready == txCount < MaxTx /\ last = Idle

Invoke(op, cert, in, res) ==
    /\ last' = [op |-> op, name |-> cert.name, role |-> cert.role, in |-> in,
                ok |-> res.ok, err |-> res.err, fault |-> res.fault,
                event |-> res.event, txId |-> GetTxID(txCount), out |-> NoOutput]
    /\ UNCHANGED <<storeFails, pending, version, loop>>
    /\ IF res.ok
       THEN /\ ledger' = Apply(ledger, res.writes)
            /\ history' = Record(history, res.writes, GetTxID(txCount))
            /\ txCount' = txCount + 1
       ELSE UNCHANGED <<ledger, history, txCount>>

\* a read returns its response to the caller and writes nothing
Answer(err, out) == [ok |-> err = "", err |-> err, out |-> out]

\* variant: a read is committed like a transaction and re-records the latest
\* revision of every key
View_Commits(op, cert, in, res) ==
    /\ last' = [op |-> op, name |-> cert.name, role |-> cert.role, in |-> in,
                ok |-> res.ok, err |-> res.err, fault |-> "none",
                event |-> NoEvent, txId |-> "", out |-> res.out]
    /\ history' = [k \in DOMAIN history |->
                      Append(history[k], [history[k][Len(history[k])]
                                            EXCEPT !.txId = GetTxID(txCount)])]
    /\ txCount' = txCount + 1
    /\ UNCHANGED <<ledger, storeFails, pending, version, loop>>

View(op, cert, in, res) ==
    /\ last' = [op |-> op, name |-> cert.name, role |-> cert.role, in |-> in,
                ok |-> res.ok, err |-> res.err, fault |-> "none",
                event |-> NoEvent, txId |-> "", out |-> res.out]
    /\ UNCHANGED <<ledger, history, txCount, storeFails, pending, version, loop>>

\* a store fault can only hit an invocation that reaches its PutState calls
FaultsOf(res, faults) == IF res.ok /\ storeFails THEN faults ELSE {"none"}

(***************************************************************************)
(* Caller identities (certificate name and userRole attribute)             *)
(***************************************************************************)
Certs == {[name |-> SUPER_ADMIN, role |-> ""],
          [name |-> "a1", role |-> VACCINE_CHAIN_ADMIN],
          [name |-> "m", role |-> MANUFACTURER],
          [name |-> "d1", role |-> DISTRIBUTER],
          [name |-> "c1", role |-> CHEMIST]}

\* variant: a suspended caller is resolved like an active one
getProfileDetailsErr_IgnoresSuspension(l, cert) ==
    IF IsNil(IsExist(l, cert.name, cert.role)) THEN "NotFound" ELSE ""

getProfileDetailsErr(l, cert) == IsActiveErr(l, cert.name, cert.role)
getProfileDetails(l, cert) == Entity(IsActive(l, cert.name, cert.role))


RECURSIVE SetToSeq(_)
SetToSeq(S) == IF S = {} THEN << >>
               ELSE LET x == CHOOSE y \in S : TRUE
                    IN <<x>> \o SetToSeq(S \ {x})

(***************************************************************************)
(* JSON documents as marshalled from the structs                           *)
(***************************************************************************)
\* Entity.LicenseNo and Entity.BatchCount are tagged omitempty
EntityJSON(e) ==
    IF e.licenseNo = "" /\ e.batchCount = 0
    THEN [id |-> e.id, suspended |-> e.suspended, docType |-> e.docType]
    ELSE IF e.licenseNo = ""
    THEN [id |-> e.id, suspended |-> e.suspended, batchCount |-> e.batchCount,
          docType |-> e.docType]
    ELSE IF e.batchCount = 0
    THEN [id |-> e.id, licenseNo |-> e.licenseNo, suspended |-> e.suspended,
          docType |-> e.docType]
    ELSE [id |-> e.id, licenseNo |-> e.licenseNo, suspended |-> e.suspended,
          batchCount |-> e.batchCount, docType |-> e.docType]

validateEntity(in) ==
    /\ in.id # ""
    /\ in.licenseNo # ""
    /\ in.docType \in {VACCINE_CHAIN_ADMIN, MANUFACTURER, DISTRIBUTER, CHEMIST}

validateProduct(in) == in.id # "" /\ in.docType = ITEM

\* variant: an expiry date equal to the manufacturing date is accepted
expiryGreaterThanManufacturing_OrEqual(in) == in.expiryDate >= in.manufacturingDate

expiryGreaterThanManufacturing(in) == in.expiryDate > in.manufacturingDate

validateBatch(in) ==
    /\ in.manufacturingDate # 0
    /\ in.expiryDate # 0
    /\ expiryGreaterThanManufacturing(in)

validateChangeStatus(in) ==
    in.docType \in {VACCINE_CHAIN_ADMIN, MANUFACTURER, DISTRIBUTER, CHEMIST}

(***************************************************************************)
(* Entity registry                                                         *)
(***************************************************************************)
\* variant: the existence check is left out
VaccineChainAdmin_NoExistCheck(l, cert, in, fault) ==
    IF ~validateEntity(in) THEN Fail("Validation")
    ELSE IF cert.name # SUPER_ADMIN THEN Fail("PermissionDenied")
    ELSE IF fault = "put" THEN FailAt("StoreFailure", "put")
    ELSE Done(<< <<InsertKey(in.id, in.docType), EntityJSON(Entity(in))>> >>,
              NoEvent, "none")

VaccineChainAdmin(l, cert, in, fault) ==
    IF ~validateEntity(in) THEN Fail("Validation")
    ELSE IF cert.name # SUPER_ADMIN THEN Fail("PermissionDenied")
    ELSE IF ~IsNil(IsExist(l, in.id, in.docType)) THEN Fail("AlreadyExists")
    ELSE IF fault = "put" THEN FailAt("StoreFailure", "put")
    ELSE Done(<< <<InsertKey(in.id, in.docType), EntityJSON(Entity(in))>> >>,
              NoEvent, "none")

AddEntity(l, cert, in, fault) ==
    IF ~validateEntity(in) THEN Fail("Validation")
    ELSE IF getProfileDetailsErr(l, cert) # "" THEN Fail(getProfileDetailsErr(l, cert))
    ELSE IF cert.role # VACCINE_CHAIN_ADMIN THEN Fail("PermissionDenied")
    ELSE IF ~IsNil(IsExist(l, in.id, in.docType)) THEN Fail("AlreadyExists")
    ELSE IF fault = "put" THEN FailAt("StoreFailure", "put")
    ELSE Done(<< <<InsertKey(in.id, in.docType), EntityJSON(Entity(in))>> >>,
              NoEvent, "none")

\* variant: the existence check is left out
AddProduct_NoExistCheck(l, cert, in, fault) ==
    IF ~validateProduct(in) THEN Fail("Validation")
    ELSE IF getProfileDetailsErr(l, cert) # "" THEN Fail(getProfileDetailsErr(l, cert))
    ELSE IF cert.role # MANUFACTURER THEN Fail("PermissionDenied")
    ELSE LET loggedinEntity == getProfileDetails(l, cert)
             productId == in.id \o loggedinEntity.id
             productInput == [Product(in) EXCEPT !.owner = loggedinEntity.id]
         IN IF fault = "put" THEN FailAt("StoreFailure", "put")
            ELSE Done(<< <<InsertKey(productId, in.docType), productInput>> >>,
                      NoEvent, "none")

AddProduct(l, cert, in, fault) ==
    IF ~validateProduct(in) THEN Fail("Validation")
    ELSE IF getProfileDetailsErr(l, cert) # "" THEN Fail(getProfileDetailsErr(l, cert))
    ELSE IF cert.role # MANUFACTURER THEN Fail("PermissionDenied")
    ELSE LET loggedinEntity == getProfileDetails(l, cert)
             productId == in.id \o loggedinEntity.id
             productInput == [Product(in) EXCEPT !.owner = loggedinEntity.id]
         IN IF ~IsNil(IsExist(l, productId, in.docType)) THEN Fail("AlreadyExists")
            ELSE IF fault = "put" THEN FailAt("StoreFailure", "put")
            ELSE Done(<< <<InsertKey(productId, in.docType), productInput>> >>,
                      NoEvent, "none")

(***************************************************************************)
(* Batch / unit generator                                                  *)
(***************************************************************************)
BatchId(batchCount) == "B" \o Itoa(batchCount)
CartonId(batchId, i) == batchId \o "_" \o "C" \o Itoa(i)
PacketId(j) == "P" \o Itoa(j)
AssetId(manufacturerId, cartonId, packetId) ==
    manufacturerId \o "_" \o cartonId \o "_" \o packetId

\* the PutState calls of the nested loops, in program order
AssetWrites(m, batch, p) ==
    IF batch.cartonQnty < 1 \/ p.cartonCapacity < 1 THEN << >>
    ELSE [n \in 1..(batch.cartonQnty * p.cartonCapacity) |->
            LET i == ((n - 1) \div p.cartonCapacity) + 1
                j == ((n - 1) % p.cartonCapacity) + 1
                cartonId == CartonId(batch.id, i)
                assetId == AssetId(m.id, cartonId, PacketId(j))
            IN <<FlatKey(assetId),
                 [id |-> assetId,
                  batchId |-> batch.id,
                  cartonId |-> cartonId,
                  owner |-> m.id,
                  status |-> ReadyForDistribution,
                  productId |-> p.id,
                  manufacturerId |-> m.id,
                  manufacturingDate |-> batch.manufacturingDate,
                  expiryDate |-> batch.expiryDate,
                  docType |-> ASSET]>>]

AddBatch(l, cert, in, fault) ==
    IF ~validateBatch(in) THEN Fail("Validation")
    ELSE IF getProfileDetailsErr(l, cert) # "" THEN Fail(getProfileDetailsErr(l, cert))
    ELSE IF cert.role # MANUFACTURER THEN Fail("PermissionDenied")
    ELSE LET manufacturerDetails == getProfileDetails(l, cert)
             productId == in.productId \o manufacturerDetails.id
         IN IF IsActiveErr(l, productId, ITEM) # "" THEN Fail(IsActiveErr(l, productId, ITEM))
            ELSE
            LET productDetails == Product(IsActive(l, productId, ITEM))
                batchInput == [Batch(in) EXCEPT !.id = BatchId(manufacturerDetails.batchCount)]
                batchWrite == <<InsertKey(manufacturerDetails.id, batchInput.id), batchInput>>
                assetWrites == AssetWrites(manufacturerDetails, batchInput, productDetails)
                newBatchNo == manufacturerDetails.batchCount + 1
                counterWrite ==
                    <<InsertKey(manufacturerDetails.id, manufacturerDetails.docType),
                      EntityJSON([manufacturerDetails EXCEPT !.batchCount = newBatchNo])>>
            IN IF fault = "batch" THEN Done(NoWrites, NoEvent, "batch")
               ELSE IF fault = "unit" /\ assetWrites # << >>
                    THEN FailAt("StoreFailure", "unit")
               ELSE IF fault = "counter"
                    THEN Done(<<batchWrite>> \o assetWrites, NoEvent, "counter")
               ELSE Done(<<batchWrite>> \o assetWrites \o <<counterWrite>>,
                         NoEvent, "none")

(***************************************************************************)
(* Ownership transfer pipeline                                             *)
(***************************************************************************)
\* variant: totalBundle starts at 1 instead of 0
getQueryResult_CountsFromOne(l, selector, newOwner, newStatus, lastKey, fault) ==
    LET matched == GetQueryResult(l, selector)
    IN IF matched = {}
       THEN [err |-> "NoMatchingUnits", fault |-> "none", writes |-> NoWrites,
             productId |-> "", manufacturerId |-> "", totalBundle |-> 0]
       ELSE IF fault = "unit"
       THEN [err |-> "StoreFailure", fault |-> "unit", writes |-> NoWrites,
             productId |-> "", manufacturerId |-> "", totalBundle |-> 0]
       ELSE [err |-> "", fault |-> "none",
             writes |-> [n \in 1..Cardinality(matched) |->
                            LET k == SetToSeq(matched)[n]
                            IN <<k, [Asset(l[k]) EXCEPT !.owner = newOwner,
                                                        !.status = newStatus]>>],
             productId |-> Asset(l[lastKey]).productId,
             manufacturerId |-> Asset(l[lastKey]).manufacturerId,
             totalBundle |-> Int16(Cardinality(matched) + 1)]

\* Rewrites owner and status of every document the selector matches.
\* lastKey is the matched key the store's iterator returns last.
getQueryResultForAssetUpdateQueryString(l, selector, newOwner, newStatus, lastKey, fault) ==
    LET matched == GetQueryResult(l, selector)
    IN IF matched = {}
       THEN [err |-> "NoMatchingUnits", fault |-> "none", writes |-> NoWrites,
             productId |-> "", manufacturerId |-> "", totalBundle |-> 0]
       ELSE IF fault = "unit"
       THEN [err |-> "StoreFailure", fault |-> "unit", writes |-> NoWrites,
             productId |-> "", manufacturerId |-> "", totalBundle |-> 0]
       ELSE [err |-> "", fault |-> "none",
             writes |-> [n \in 1..Cardinality(matched) |->
                            LET k == SetToSeq(matched)[n]
                            IN <<k, [Asset(l[k]) EXCEPT !.owner = newOwner,
                                                        !.status = newStatus]>>],
             productId |-> Asset(l[lastKey]).productId,
             manufacturerId |-> Asset(l[lastKey]).manufacturerId,
             totalBundle |-> Int16(Cardinality(matched))]

createReceipt(txID, bundleId, supplierId, customerId, productId, billAmount) ==
    <<InsertKey(txID, ""),
      [id |-> txID, bundleId |-> bundleId, docType |-> RECEIPT,
       supplierId |-> supplierId, customerId |-> customerId,
       productId |-> productId, billAmount |-> billAmount]>>

ShipmentEvent(name, supplierId, customerId, price, manufacturerId, productId, units, bill) ==
    [name |-> name, SupplierId |-> supplierId, CustomerId |-> customerId,
     PerUnitSellingPrice |-> price, ManufacturerId |-> manufacturerId,
     ProductId |-> productId, TotalParcelUnits |-> units, TotalBill |-> bill]

\* variant: a product that does not resolve is passed over like a failed
\* receipt write
Settle_SkipsMissingProduct(l, txID, upd, bundleId, supplierId, customerId, eventName, inputPrice, useCatalogPrice, perUnit, fault) ==
    LET tempProductId == upd.productId \o upd.manufacturerId
    IN IF IsActiveErr(l, tempProductId, ITEM) # "" THEN Done(upd.writes, NoEvent, "none")
       ELSE
       LET productDetails == Product(IsActive(l, tempProductId, ITEM))
           price == IF useCatalogPrice THEN productDetails.price ELSE inputPrice
           billAmount == IF perUnit
                         THEN Int16(Int16(price * productDetails.packetCapacity))
                         ELSE Int16(Int16(price * productDetails.packetCapacity)
                                    * upd.totalBundle)
           units == IF perUnit THEN 1 ELSE upd.totalBundle
           receiptWrite == createReceipt(txID, bundleId, supplierId, customerId,
                                         upd.productId, billAmount)
           event == ShipmentEvent(eventName, supplierId, customerId, price,
                                  upd.manufacturerId, upd.productId, units, billAmount)
       IN IF fault = "event" THEN FailAt("StoreFailure", "event")
          ELSE IF fault = "receipt" THEN Done(upd.writes, event, "receipt")
          ELSE Done(upd.writes \o <<receiptWrite>>, event, "none")

\* common tail of the three transfers once the units have been rewritten
Settle(l, txID, upd, bundleId, supplierId, customerId, eventName, inputPrice, useCatalogPrice, perUnit, fault) ==
    LET tempProductId == upd.productId \o upd.manufacturerId
    IN IF IsActiveErr(l, tempProductId, ITEM) # "" THEN Fail(IsActiveErr(l, tempProductId, ITEM))
       ELSE
       LET productDetails == Product(IsActive(l, tempProductId, ITEM))
           price == IF useCatalogPrice THEN productDetails.price ELSE inputPrice
           billAmount == IF perUnit
                         THEN Int16(Int16(price * productDetails.packetCapacity))
                         ELSE Int16(Int16(price * productDetails.packetCapacity)
                                    * upd.totalBundle)
           units == IF perUnit THEN 1 ELSE upd.totalBundle
           receiptWrite == createReceipt(txID, bundleId, supplierId, customerId,
                                         upd.productId, billAmount)
           event == ShipmentEvent(eventName, supplierId, customerId, price,
                                  upd.manufacturerId, upd.productId, units, billAmount)
       IN IF fault = "event" THEN FailAt("StoreFailure", "event")
          ELSE IF fault = "receipt" THEN Done(upd.writes, event, "receipt")
          ELSE Done(upd.writes \o <<receiptWrite>>, event, "none")

\* variant: the vendor is looked up but a missing or suspended one is let through
ShipToDistributor_NoVendorCheck(l, cert, in, lastKey, fault, txID) ==
    IF getProfileDetailsErr(l, cert) # "" THEN Fail(getProfileDetailsErr(l, cert))
    ELSE LET manufacturerDetails == getProfileDetails(l, cert)
             upd == getQueryResultForAssetUpdateQueryString(l,
                       [owner |-> manufacturerDetails.id, cartonId |-> in.cartonId],
                       in.customerId, ReceivedAtDistributor, lastKey, fault)
         IN IF upd.err # "" THEN FailAt(upd.err, upd.fault)
            ELSE Settle(l, txID, upd, in.cartonId, manufacturerDetails.id,
                        in.customerId, "Distributor Shipment Alert",
                        in.perUnitSellingPrice, FALSE, FALSE, fault)

ShipToDistributor(l, cert, in, lastKey, fault, txID) ==
    IF getProfileDetailsErr(l, cert) # "" THEN Fail(getProfileDetailsErr(l, cert))
    ELSE IF IsActiveErr(l, in.customerId, DISTRIBUTER) # ""
         THEN Fail(IsActiveErr(l, in.customerId, DISTRIBUTER))
    ELSE LET manufacturerDetails == getProfileDetails(l, cert)
             upd == getQueryResultForAssetUpdateQueryString(l,
                       [owner |-> manufacturerDetails.id, cartonId |-> in.cartonId],
                       in.customerId, ReceivedAtDistributor, lastKey, fault)
         IN IF upd.err # "" THEN FailAt(upd.err, upd.fault)
            ELSE Settle(l, txID, upd, in.cartonId, manufacturerDetails.id,
                        in.customerId, "Distributor Shipment Alert",
                        in.perUnitSellingPrice, FALSE, FALSE, fault)

\* variant: the chemist is looked up but a missing or suspended one is let through
ShipToChemist_NoVendorCheck(l, cert, in, lastKey, fault, txID) ==
    IF getProfileDetailsErr(l, cert) # "" THEN Fail(getProfileDetailsErr(l, cert))
    ELSE LET distributerDetails == getProfileDetails(l, cert)
             upd == getQueryResultForAssetUpdateQueryString(l,
                       [owner |-> distributerDetails.id, id |-> in.packetId],
                       in.customerId, ChemistInventoryReceived, lastKey, fault)
         IN IF upd.err # "" THEN FailAt(upd.err, upd.fault)
            ELSE Settle(l, txID, upd, in.packetId, distributerDetails.id,
                        in.customerId, "Chemist Shipment Alert",
                        in.perUnitSellingPrice, FALSE, TRUE, fault)

ShipToChemist(l, cert, in, lastKey, fault, txID) ==
    IF getProfileDetailsErr(l, cert) # "" THEN Fail(getProfileDetailsErr(l, cert))
    ELSE IF IsActiveErr(l, in.customerId, CHEMIST) # ""
         THEN Fail(IsActiveErr(l, in.customerId, CHEMIST))
    ELSE LET distributerDetails == getProfileDetails(l, cert)
             upd == getQueryResultForAssetUpdateQueryString(l,
                       [owner |-> distributerDetails.id, id |-> in.packetId],
                       in.customerId, ChemistInventoryReceived, lastKey, fault)
         IN IF upd.err # "" THEN FailAt(upd.err, upd.fault)
            ELSE Settle(l, txID, upd, in.packetId, distributerDetails.id,
                        in.customerId, "Chemist Shipment Alert",
                        in.perUnitSellingPrice, FALSE, TRUE, fault)

\* variant: the status of ShipToChemist is written by the sale
ShipToCustomer_ChemistStatus(l, cert, in, lastKey, fault, txID) ==
    IF getProfileDetailsErr(l, cert) # "" THEN Fail(getProfileDetailsErr(l, cert))
    ELSE LET chemistDetails == getProfileDetails(l, cert)
             upd == getQueryResultForAssetUpdateQueryString(l,
                       [owner |-> chemistDetails.id, id |-> in.packetId],
                       in.customerId, ChemistInventoryReceived, lastKey, fault)
         IN IF upd.err # "" THEN FailAt(upd.err, upd.fault)
            ELSE Settle(l, txID, upd, in.packetId, chemistDetails.id,
                        in.customerId, "Customer Selling Alert",
                        0, TRUE, TRUE, fault)

ShipToCustomer(l, cert, in, lastKey, fault, txID) ==
    IF getProfileDetailsErr(l, cert) # "" THEN Fail(getProfileDetailsErr(l, cert))
    ELSE LET chemistDetails == getProfileDetails(l, cert)
             upd == getQueryResultForAssetUpdateQueryString(l,
                       [owner |-> chemistDetails.id, id |-> in.packetId],
                       in.customerId, SoldToCustomer, lastKey, fault)
         IN IF upd.err # "" THEN FailAt(upd.err, upd.fault)
            ELSE Settle(l, txID, upd, in.packetId, chemistDetails.id,
                        in.customerId, "Customer Selling Alert",
                        0, TRUE, TRUE, fault)

(***************************************************************************)
(* History reconstructor                                                   *)
(***************************************************************************)
GetHistoryForKey(h, key) == IF FlatKey(key) \in DOMAIN h THEN h[FlatKey(key)] ELSE << >>

\* a deleted revision is not decoded: its record is the zero Asset
HistoryRecord(rev) == IF rev.isDelete THEN Asset([none |-> TRUE]) ELSE Asset(rev.value)

TrackPacket(h, key) ==
    LET revs == GetHistoryForKey(h, key)
    IN IF revs # << >> /\ HistoryRecord(revs[1]).docType # ASSET
       THEN [err |-> "NotAnAsset", histories |-> << >>]
       ELSE [err |-> "",
             histories |-> [i \in 1..Len(revs) |->
                              [id |-> HistoryRecord(revs[i]).id,
                               owner |-> HistoryRecord(revs[i]).owner,
                               status |-> HistoryRecord(revs[i]).status,
                               txId |-> revs[i].txId,
                               isDelete |-> revs[i].isDelete]]]

(***************************************************************************)
(* Query views                                                             *)
(***************************************************************************)
\* the documents a rich query returns
getQueryResultForQueryString(l, selector) == {l[k] : k \in GetQueryResult(l, selector)}

GetProductsByManufacturer(l, cert) ==
    IF getProfileDetailsErr(l, cert) # "" THEN Answer(getProfileDetailsErr(l, cert), NoOutput)
    ELSE Answer("", getQueryResultForQueryString(l,
                        [owner |-> getProfileDetails(l, cert).id, docType |-> ITEM]))

GetAssetByEntity(l, cert) ==
    IF getProfileDetailsErr(l, cert) # "" THEN Answer(getProfileDetailsErr(l, cert), NoOutput)
    ELSE Answer("", getQueryResultForQueryString(l,
                        [owner |-> getProfileDetails(l, cert).id, docType |-> ASSET]))

ViewProfileDetails(l, cert) ==
    IF getProfileDetailsErr(l, cert) # "" THEN Answer(getProfileDetailsErr(l, cert), NoOutput)
    ELSE Answer("", EntityJSON(getProfileDetails(l, cert)))

\* variant: the receipt is returned to every active caller
ViewReceipt_NoPartyCheck(l, cert, receiptId) ==
    IF getProfileDetailsErr(l, cert) # "" THEN Answer(getProfileDetailsErr(l, cert), NoOutput)
    ELSE LET receiptBytes == GetState(l, receiptId)
         IN IF IsNil(receiptBytes) THEN Answer("NotFound", NoOutput)
            ELSE Answer("", receiptBytes)

\* receiptId is the key handed to GetState as it is
ViewReceipt(l, cert, receiptId) ==
    IF getProfileDetailsErr(l, cert) # "" THEN Answer(getProfileDetailsErr(l, cert), NoOutput)
    ELSE LET entityDetails == getProfileDetails(l, cert)
             receiptBytes == GetState(l, receiptId)
             receipt == Receipt(receiptBytes)
         IN IF IsNil(receiptBytes) THEN Answer("NotFound", NoOutput)
            ELSE IF receipt.supplierId # entityDetails.id /\ receipt.customerId # entityDetails.id
                 THEN Answer("NotAuthorized", NoOutput)
            ELSE Answer("", receiptBytes)

(***************************************************************************)
(* Suspension                                                              *)
(***************************************************************************)
ChangeAdminStatus(l, cert, in, fault) ==
    IF in.docType # VACCINE_CHAIN_ADMIN THEN Fail("Validation")
    ELSE IF cert.name # SUPER_ADMIN THEN Fail("PermissionDenied")
    ELSE LET objectBytes == IsExist(l, in.id, in.docType)
         IN IF IsNil(objectBytes) THEN Fail("NotFound")
            ELSE IF SuspendStatus(objectBytes) = in.status THEN Fail("NoOp")
            ELSE IF fault = "put" THEN Done(NoWrites, NoEvent, "put")
            ELSE Done(<< <<InsertKey(in.id, in.docType),
                           EntityJSON([Entity(objectBytes) EXCEPT !.suspended = in.status])>> >>,
                      NoEvent, "none")

ChangeEntityStatus(l, cert, in, fault) ==
    IF in.docType \notin {MANUFACTURER, DISTRIBUTER, CHEMIST} THEN Fail("Validation")
    ELSE IF getProfileDetailsErr(l, cert) # "" THEN Fail(getProfileDetailsErr(l, cert))
    ELSE IF cert.role # VACCINE_CHAIN_ADMIN THEN Fail("PermissionDenied")
    ELSE LET objectBytes == IsExist(l, in.id, in.docType)
         IN IF IsNil(objectBytes) THEN Fail("NotFound")
            ELSE IF SuspendStatus(objectBytes) = in.status THEN Fail("NoOp")
            ELSE IF fault = "put" THEN Done(NoWrites, NoEvent, "put")
            ELSE Done(<< <<InsertKey(in.id, in.docType),
                           EntityJSON([Entity(objectBytes) EXCEPT !.suspended = in.status])>> >>,
                      NoEvent, "none")

\* variant: the record is rebuilt from the request instead of the stored one
ChangeStatus_FromRequest(l, cert, in, fault) ==
    IF ~validateChangeStatus(in) THEN Fail("Validation")
    ELSE IF in.docType = VACCINE_CHAIN_ADMIN /\ cert.name # SUPER_ADMIN
         THEN Fail("PermissionDenied")
    ELSE IF in.docType # VACCINE_CHAIN_ADMIN /\ getProfileDetailsErr(l, cert) # ""
         THEN Fail(getProfileDetailsErr(l, cert))
    ELSE IF in.docType # VACCINE_CHAIN_ADMIN /\ cert.role # VACCINE_CHAIN_ADMIN
         THEN Fail("PermissionDenied")
    ELSE LET objectBytes == IsExist(l, in.id, in.docType)
         IN IF IsNil(objectBytes) THEN Fail("NotFound")
            ELSE IF SuspendStatus(objectBytes) = in.status THEN Fail("NoOp")
            ELSE IF fault = "put" THEN Done(NoWrites, NoEvent, "put")
            ELSE Done(<< <<InsertKey(in.id, in.docType),
                           EntityJSON([Entity(in) EXCEPT !.suspended = in.status])>> >>,
                      NoEvent, "none")

\* variant: an administrator target is handled like the other roles
ChangeStatus_AnyAdminForAdmin(l, cert, in, fault) ==
    IF ~validateChangeStatus(in) THEN Fail("Validation")
    ELSE IF getProfileDetailsErr(l, cert) # "" THEN Fail(getProfileDetailsErr(l, cert))
    ELSE IF cert.role # VACCINE_CHAIN_ADMIN THEN Fail("PermissionDenied")
    ELSE LET objectBytes == IsExist(l, in.id, in.docType)
         IN IF IsNil(objectBytes) THEN Fail("NotFound")
            ELSE IF SuspendStatus(objectBytes) = in.status THEN Fail("NoOp")
            ELSE IF fault = "put" THEN Done(NoWrites, NoEvent, "put")
            ELSE Done(<< <<InsertKey(in.id, in.docType),
                           EntityJSON([Entity(objectBytes) EXCEPT !.suspended = in.status])>> >>,
                      NoEvent, "none")

ChangeStatus(l, cert, in, fault) ==
    IF ~validateChangeStatus(in) THEN Fail("Validation")
    ELSE IF in.docType = VACCINE_CHAIN_ADMIN /\ cert.name # SUPER_ADMIN
         THEN Fail("PermissionDenied")
    ELSE IF in.docType # VACCINE_CHAIN_ADMIN /\ getProfileDetailsErr(l, cert) # ""
         THEN Fail(getProfileDetailsErr(l, cert))
    ELSE IF in.docType # VACCINE_CHAIN_ADMIN /\ cert.role # VACCINE_CHAIN_ADMIN
         THEN Fail("PermissionDenied")
    ELSE LET objectBytes == IsExist(l, in.id, in.docType)
         IN IF IsNil(objectBytes) THEN Fail("NotFound")
            ELSE IF SuspendStatus(objectBytes) = in.status THEN Fail("NoOp")
            ELSE IF fault = "put" THEN Done(NoWrites, NoEvent, "put")
            ELSE Done(<< <<InsertKey(in.id, in.docType),
                           EntityJSON([Entity(objectBytes) EXCEPT !.suspended = in.status])>> >>,
                      NoEvent, "none")

(***************************************************************************)
(* Request bodies                                                          *)
(***************************************************************************)
AdminInputs == {[id |-> "a1", licenseNo |-> "La1", docType |-> VACCINE_CHAIN_ADMIN,
                 suspended |-> FALSE, batchCount |-> 0]}

\* the decoded Entity is stored as sent: a body may carry suspended = true
EntityInputs == {[id |-> "m", licenseNo |-> "Lm", docType |-> MANUFACTURER,
                  suspended |-> FALSE, batchCount |-> 0],
                 [id |-> "d1", licenseNo |-> "Ld1", docType |-> DISTRIBUTER,
                  suspended |-> FALSE, batchCount |-> 0],
                 [id |-> "c1", licenseNo |-> "Lc1", docType |-> CHEMIST,
                  suspended |-> FALSE, batchCount |-> 0],
                 [id |-> "d1", licenseNo |-> "Ld1", docType |-> DISTRIBUTER,
                  suspended |-> TRUE, batchCount |-> 0]}

\* product "pm" carries a packaging multiplier whose bills leave 16 bits;
\* a product body may carry suspended = true as well
PacketCapacityOf(i) == IF i = "p" THEN 3 ELSE 5000
PriceOf(i) == IF i = "p" THEN 5 ELSE 7

ProductInputs == {[id |-> i, docType |-> ITEM, price |-> PriceOf(i), cartonCapacity |-> k,
                   packetCapacity |-> PacketCapacityOf(i), suspended |-> FALSE,
                   owner |-> ""] :
                  i \in {"p", "pm"}, k \in {0, MaxCapacity}}
                 \cup {[id |-> "p", docType |-> ITEM, price |-> 5,
                        cartonCapacity |-> MaxCapacity, packetCapacity |-> 3,
                        suspended |-> TRUE, owner |-> ""]}

BatchInputs == {[owner |-> "m", productId |-> i, manufacturingDate |-> 1,
                 expiryDate |-> 2, cartonQnty |-> c] :
                i \in {"p", "pm"}, c \in {0, MaxCartons}}
               \cup {[owner |-> "m", productId |-> "p", manufacturingDate |-> 2,
                      expiryDate |-> 2, cartonQnty |-> 1]}

CartonIds == {"B0_C1"}
PacketIds == {"m_B0_C1_P1", "B0"}

DistributorShipments == {[customerId |-> c, cartonId |-> k, perUnitSellingPrice |-> 7] :
                         c \in {"d1", "c1"}, k \in CartonIds}
ChemistShipments == {[customerId |-> c, packetId |-> k, perUnitSellingPrice |-> 7] :
                     c \in {"c1", "d1"}, k \in PacketIds}
\* a customer id is free text: one that names no party, one that names a party
CustomerSales == {[customerId |-> c, packetId |-> k] :
                  c \in {"x1", "a1"}, k \in PacketIds}

StatusChanges == {[id |-> t[1], docType |-> t[2], status |-> s] :
                  t \in {<<"a1", VACCINE_CHAIN_ADMIN>>, <<"m", MANUFACTURER>>,
                         <<"d1", DISTRIBUTER>>},
                  s \in BOOLEAN}

\* keys asked of ViewReceipt: the stored receipts, a unit, a party record
\* and a transaction id that holds nothing
ReceiptIds == {k \in DOMAIN ledger : IsFlat(k) /\ Field(ledger[k], "docType", "") = RECEIPT}
              \cup {<<"m_B0_C1_P1">>, <<"m", MANUFACTURER>>, <<"tx0">>}

TrackedKeys == {"m_B0_C1_P1", "tx4"}

LastKeys(selector) ==
    IF GetQueryResult(ledger, selector) = {} THEN {<<"">>}
    ELSE GetQueryResult(ledger, selector)

Init ==
    /\ storeFails \in BOOLEAN
    /\ ledger = << >>
    /\ history = << >>
    /\ txCount = 0
    /\ last = Idle
    /\ pending = {}
    /\ version = << >>
    /\ loop = NoLoop

DoVaccineChainAdmin ==
    /\ Ready
    /\ \E cert \in Certs, in \in AdminInputs :
      \E fault \in FaultsOf(VaccineChainAdmin(ledger, cert, in, "none"), {"none", "put"}) :
        \E res \in {VaccineChainAdmin(ledger, cert, in, fault)} :
            Invoke("VaccineChainAdmin", cert, in, res)

DoAddEntity ==
    /\ Ready
    /\ \E cert \in Certs, in \in EntityInputs :
      \E fault \in FaultsOf(AddEntity(ledger, cert, in, "none"), {"none", "put"}) :
        \E res \in {AddEntity(ledger, cert, in, fault)} :
            Invoke("AddEntity", cert, in, res)

DoAddProduct ==
    /\ Ready
    /\ \E cert \in Certs, in \in ProductInputs :
      \E fault \in FaultsOf(AddProduct(ledger, cert, in, "none"), {"none", "put"}) :
        \E res \in {AddProduct(ledger, cert, in, fault)} :
            Invoke("AddProduct", cert, in, res)

DoAddBatch ==
    /\ Ready
    /\ \E cert \in Certs, in \in BatchInputs :
      \E fault \in FaultsOf(AddBatch(ledger, cert, in, "none"),
                            {"none", "batch", "unit", "counter"}) :
        \E res \in {AddBatch(ledger, cert, in, fault)} :
            Invoke("AddBatch", cert, in, res)

DoShipToDistributor ==
    /\ Ready
    /\ \E cert \in Certs, in \in DistributorShipments :
      \E lastKey \in LastKeys([owner |-> cert.name, cartonId |-> in.cartonId]) :
        \E fault \in FaultsOf(ShipToDistributor(ledger, cert, in, lastKey, "none", GetTxID(txCount)),
                              {"none", "unit", "receipt", "event"}) :
          \E res \in {ShipToDistributor(ledger, cert, in, lastKey, fault, GetTxID(txCount))} :
            Invoke("ShipToDistributor", cert, in, res)

DoShipToChemist ==
    /\ Ready
    /\ \E cert \in Certs, in \in ChemistShipments :
      \E lastKey \in LastKeys([owner |-> cert.name, id |-> in.packetId]) :
        \E fault \in FaultsOf(ShipToChemist(ledger, cert, in, lastKey, "none", GetTxID(txCount)),
                              {"none", "unit", "receipt", "event"}) :
          \E res \in {ShipToChemist(ledger, cert, in, lastKey, fault, GetTxID(txCount))} :
            Invoke("ShipToChemist", cert, in, res)

DoShipToCustomer ==
    /\ Ready
    /\ \E cert \in Certs, in \in CustomerSales :
      \E lastKey \in LastKeys([owner |-> cert.name, id |-> in.packetId]) :
        \E fault \in FaultsOf(ShipToCustomer(ledger, cert, in, lastKey, "none", GetTxID(txCount)),
                              {"none", "unit", "receipt", "event"}) :
          \E res \in {ShipToCustomer(ledger, cert, in, lastKey, fault, GetTxID(txCount))} :
            Invoke("ShipToCustomer", cert, in, res)

DoChangeStatus ==
    /\ Ready
    /\ \E cert \in Certs, in \in StatusChanges :
      \E fault \in FaultsOf(ChangeStatus(ledger, cert, in, "none"), {"none", "put"}) :
        \E res \in {ChangeStatus(ledger, cert, in, fault)} :
            Invoke("ChangeStatus", cert, in, res)

DoChangeAdminStatus ==
    /\ Ready
    /\ \E cert \in Certs, in \in StatusChanges :
      \E fault \in FaultsOf(ChangeAdminStatus(ledger, cert, in, "none"), {"none", "put"}) :
        \E res \in {ChangeAdminStatus(ledger, cert, in, fault)} :
            Invoke("ChangeAdminStatus", cert, in, res)

DoChangeEntityStatus ==
    /\ Ready
    /\ \E cert \in Certs, in \in StatusChanges :
      \E fault \in FaultsOf(ChangeEntityStatus(ledger, cert, in, "none"), {"none", "put"}) :
        \E res \in {ChangeEntityStatus(ledger, cert, in, fault)} :
            Invoke("ChangeEntityStatus", cert, in, res)

DoGetProductsByManufacturer ==
    /\ Ready
    /\ \E cert \in Certs :
         View("GetProductsByManufacturer", cert, NoInput, GetProductsByManufacturer(ledger, cert))

DoGetAssetByEntity ==
    /\ Ready
    /\ \E cert \in Certs :
         View("GetAssetByEntity", cert, NoInput, GetAssetByEntity(ledger, cert))

DoViewProfileDetails ==
    /\ Ready
    /\ \E cert \in Certs :
         View("ViewProfileDetails", cert, NoInput, ViewProfileDetails(ledger, cert))

DoViewReceipt ==
    /\ Ready
    /\ \E cert \in Certs, receiptId \in ReceiptIds :
         View("ViewReceipt", cert, [receiptId |-> receiptId],
              ViewReceipt(ledger, cert, receiptId))

\* TrackPacket does not look at the caller
DoTrackPacket ==
    /\ Ready
    /\ \E key \in TrackedKeys :
         View("TrackPacket", [name |-> "", role |-> ""], [key |-> key],
              Answer(TrackPacket(history, key).err, TrackPacket(history, key).histories))

\* the response of the invocation is returned to the client
Respond ==
    /\ last # Idle
    /\ last' = Idle
    /\ UNCHANGED <<ledger, history, txCount, storeFails, pending, version, loop>>

Next ==
    \/ DoVaccineChainAdmin
    \/ DoAddEntity
    \/ DoAddProduct
    \/ DoAddBatch
    \/ DoShipToDistributor
    \/ DoShipToChemist
    \/ DoShipToCustomer
    \/ DoChangeStatus
    \/ DoChangeAdminStatus
    \/ DoChangeEntityStatus
    \/ DoGetProductsByManufacturer
    \/ DoGetAssetByEntity
    \/ DoViewProfileDetails
    \/ DoViewReceipt
    \/ DoTrackPacket
    \/ Respond

Spec == Init /\ [][Next]_vars

\* the runs in which every PutState succeeds
InitReliable == Init /\ ~storeFails

SpecReliable == InitReliable /\ [][Next]_vars

(***************************************************************************)
(* Properties                                                              *)
(***************************************************************************)
StatusSequence == <<ReadyForDistribution, ReceivedAtDistributor,
                    ChemistInventoryReceived, SoldToCustomer>>

IsPrefix(s, t) == Len(s) <= Len(t) /\ \A i \in 1..Len(s) : s[i] = t[i]

\* units: the flat keys holding a document of type ASSET
Units(l) == {k \in DOMAIN l : IsFlat(k) /\ Field(l[k], "docType", "") = ASSET}

StatusTrail(h, k) ==
    [i \in 1..Len(TrackPacket(h, k[1]).histories) |->
        TrackPacket(h, k[1]).histories[i].status]

\* C1: the statuses of every unit's revision history, oldest first, are a
\* prefix of ReadyForDistribution, ReceivedAtDistributor,
\* ChemistInventoryReceived, SoldToCustomer.
C1_StatusTrailIsPrefix ==
    \A k \in Units(ledger) : IsPrefix(StatusTrail(history, k), StatusSequence)

Touched(h1, h2) == {k \in DOMAIN h2 : k \notin DOMAIN h1 \/ h2[k] # h1[k]}

\* C2: a successful AddBatch with carton quantity C on a product of carton
\* capacity K writes exactly the C*K units <manufacturer>_<batch>_C<i>_P<j>,
\* i in 1..C, j in 1..K, each ReadyForDistribution and owned by the caller.
C2_BatchCreatesUnits ==
    [][(last'.op = "AddBatch" /\ last'.ok) =>
        LET m == last'.name
            C == last'.in.cartonQnty
            K == ledger[<<last'.in.productId \o m, ITEM>>].cartonCapacity
            b == "B" \o Itoa(Field(ledger[<<m, MANUFACTURER>>], "batchCount", 0))
            expected == {<<m \o "_" \o b \o "_C" \o Itoa(i) \o "_P" \o Itoa(j)>> :
                           i \in 1..C, j \in 1..K}
        IN /\ Touched(history, history') = expected
           /\ Cardinality(expected) = C * K
           /\ \A k \in expected : /\ ledger'[k].id = k[1]
                                  /\ ledger'[k].status = ReadyForDistribution
                                  /\ ledger'[k].owner = m
                                  /\ ledger'[k].docType = ASSET]_vars

\* C3: every successful AddBatch stores its batch under "B" + the caller's
\* batchCount before the call, and that key held no batch before.
C3_BatchIdsNeverRepeat ==
    [][(last'.op = "AddBatch" /\ last'.ok) =>
        LET m == last'.name
            b == "B" \o Itoa(Field(ledger[<<m, MANUFACTURER>>], "batchCount", 0))
        IN /\ <<m, b>> \notin DOMAIN ledger
           /\ <<m, b>> \in DOMAIN ledger'
           /\ ledger'[<<m, b>>].id = b]_vars

Manufacturers(l) == {k \in DOMAIN l : ~IsFlat(k) /\ k[2] = MANUFACTURER}
BatchCountOf(l, k) == Field(l[k], "batchCount", 0)

\* C4: a manufacturer's batchCount grows by exactly 1 on each of its
\* successful AddBatch calls and is unchanged by everything else.
C4_BatchCountStep ==
    [][\A k \in Manufacturers(ledger) :
          BatchCountOf(ledger', k) =
              IF last'.op = "AddBatch" /\ last'.ok /\ last'.name = k[1]
              THEN BatchCountOf(ledger, k) + 1
              ELSE BatchCountOf(ledger, k)]_vars

BatchKeys(l) == {k \in DOMAIN l : ~IsFlat(k) /\ k[2] \notin
                    {VACCINE_CHAIN_ADMIN, MANUFACTURER, DISTRIBUTER, CHEMIST, ITEM}}

\* C5: in every committed state the units of a manufacturer belong to
\* batches whose record exists and whose number is below the manufacturer's
\* batchCount, and every batch below the counter has its record and units.
C5_BatchAllOrNothing ==
    \A mk \in Manufacturers(ledger) :
        LET m == mk[1]
            counted == {"B" \o Itoa(i) : i \in 0..(BatchCountOf(ledger, mk) - 1)}
        IN /\ \A u \in Units(ledger) :
                 ledger[u].manufacturerId = m =>
                     /\ ledger[u].batchId \in counted
                     /\ <<m, ledger[u].batchId>> \in DOMAIN ledger
           /\ \A bk \in BatchKeys(ledger) : bk[1] = m => bk[2] \in counted
           /\ \A b \in counted :
                 /\ <<m, b>> \in DOMAIN ledger
                 /\ LET batch == Batch(ledger[<<m, b>>])
                        K == Product(GetState(ledger, <<batch.productId \o m, ITEM>>)).cartonCapacity
                    IN \A i \in 1..batch.cartonQnty, j \in 1..K :
                          <<m \o "_" \o b \o "_C" \o Itoa(i) \o "_P" \o Itoa(j)>> \in Units(ledger)

\* C6: every unit key written by a successful AddBatch was absent from the
\* store before that invocation.
C6_BatchNeverOverwritesUnit ==
    [][(last'.op = "AddBatch" /\ last'.ok) =>
        \A k \in Touched(history, history') : k \notin DOMAIN ledger]_vars

Registered(l, id, role) == <<id, role>> \in DOMAIN l
ActiveParty(l, id, role) == Registered(l, id, role) /\ ~Field(l[<<id, role>>], "suspended", FALSE)
Roles == {VACCINE_CHAIN_ADMIN, MANUFACTURER, DISTRIBUTER, CHEMIST}
Transfers == {"ShipToDistributor", "ShipToChemist", "ShipToCustomer"}
Unchanged == ledger' = ledger /\ history' = history

CartonUnits(l, owner, cartonId) ==
    {k \in Units(l) : l[k].owner = owner /\ l[k].cartonId = cartonId}

TargetRole(op) == IF op = "ShipToDistributor" THEN DISTRIBUTER ELSE CHEMIST

\* C8: ShipToDistributor and ShipToChemist are rejected, with the ledger and
\* every history unchanged, when the named counterparty has no record under
\* the target role or that record is suspended.
C8_CounterpartyRequired ==
    [][(/\ last'.op \in {"ShipToDistributor", "ShipToChemist"}
        /\ ~ActiveParty(ledger, last'.in.customerId, TargetRole(last'.op))) =>
            ~last'.ok /\ Unchanged]_vars

\* an active caller holding the carton was refused because the distributor
\* it named is suspended
C8_Witness ==
    /\ last.op = "ShipToDistributor" /\ ~last.ok /\ last.err = "NotActive"
    /\ ActiveParty(ledger, last.name, last.role)
    /\ Registered(ledger, last.in.customerId, DISTRIBUTER)
    /\ ledger[<<last.in.customerId, DISTRIBUTER>>].suspended
    /\ CartonUnits(ledger, last.name, last.in.cartonId) # {}

\* an active caller holding the unit was refused because the id it named is
\* registered as a distributor only, not as a chemist
C8_WitnessWrongRole ==
    /\ last.op = "ShipToChemist" /\ ~last.ok /\ last.err = "NotFound"
    /\ ActiveParty(ledger, last.name, last.role)
    /\ ActiveParty(ledger, last.in.customerId, DISTRIBUTER)
    /\ ~Registered(ledger, last.in.customerId, CHEMIST)
    /\ \E k \in Units(ledger) : ledger[k].owner = last.name /\ ledger[k].id = last.in.packetId

MatchingUnits(l, op, owner, in) ==
    IF op = "ShipToDistributor"
    THEN CartonUnits(l, owner, in.cartonId)
    ELSE {k \in Units(l) : l[k].owner = owner /\ l[k].id = in.packetId}

\* C10 (as claimed): a transfer fails, writing no unit, no receipt and no
\* event, when no unit has owner = caller id and the requested carton id
\* (ShipToDistributor) or unit id (ShipToChemist, ShipToCustomer).
C10_NoUnitNoTransfer ==
    [][(/\ last'.op \in Transfers
        /\ MatchingUnits(ledger, last'.op, last'.name, last'.in) = {}) =>
            ~last'.ok /\ Unchanged /\ last'.event = NoEvent]_vars

ProfileOps == {"AddEntity", "AddProduct", "AddBatch", "ShipToDistributor",
               "ShipToChemist", "ShipToCustomer", "GetProductsByManufacturer",
               "GetAssetByEntity", "ViewReceipt", "ViewProfileDetails",
               "ChangeEntityStatus"}

ResolvesProfile(op, in) ==
    op \in ProfileOps \/ (op = "ChangeStatus" /\ in.docType # VACCINE_CHAIN_ADMIN)

\* C11: every function that resolves the caller's profile is rejected, with
\* the ledger and every history unchanged, while the caller has no record
\* under (certificate name, userRole) or that record is suspended; whenever
\* the record is there and not suspended, also after a suspension has been
\* lifted, the profile and list views are answered.
C11_CallerMustBeActive ==
    [][ResolvesProfile(last'.op, last'.in) =>
        /\ ~ActiveParty(ledger, last'.name, last'.role) => (~last'.ok /\ Unchanged)
        /\ (/\ last'.op \in {"ViewProfileDetails", "GetProductsByManufacturer",
                              "GetAssetByEntity"}
            /\ ActiveParty(ledger, last'.name, last'.role)) => last'.ok
        /\ (last'.op = "ViewProfileDetails" /\ last'.ok) =>
               last'.out = ledger[<<last'.name, last'.role>>]]_vars

\* a suspended manufacturer whose product is registered was refused a batch
C11_Witness ==
    /\ last.op = "AddBatch" /\ ~last.ok /\ last.err = "NotActive"
    /\ Registered(ledger, last.name, MANUFACTURER)
    /\ ledger[<<last.name, MANUFACTURER>>].suspended
    /\ ActiveParty(ledger, last.in.productId \o last.name, ITEM)

ProductOfUnit(l, k) ==
    Product(GetState(l, <<l[k].productId \o l[k].manufacturerId, ITEM>>))

Receipts(l) == {k \in DOMAIN l : IsFlat(k) /\ Field(l[k], "docType", "") = RECEIPT}

\* C12 (as claimed): a successful ShipToDistributor of n units at per-unit
\* price p of a product with packetCapacity m stores a receipt whose
\* billAmount is the integer p*m*n and emits an event whose TotalBill is
\* p*m*n.
C12_BillIsProduct ==
    [][(last'.op = "ShipToDistributor" /\ last'.ok) =>
        LET matched == CartonUnits(ledger, last'.name, last'.in.cartonId)
            n == Cardinality(matched)
            m == ProductOfUnit(ledger, CHOOSE k \in matched : TRUE).packetCapacity
            bill == last'.in.perUnitSellingPrice * m * n
        IN /\ last'.event.TotalBill = bill
           /\ <<last'.txId>> \in Receipts(ledger')
           /\ ledger'[<<last'.txId>>].billAmount = bill]_vars

\* C13 (as claimed): the bill of a successful ShipToChemist of a unit is the
\* supplied per-unit price times the packetCapacity of the unit's product,
\* and the bill of a successful ShipToCustomer of a unit is the price of the
\* unit's product times its packetCapacity.
C13_BillPerTransfer ==
    [][(/\ last'.op \in {"ShipToChemist", "ShipToCustomer"} /\ last'.ok
        /\ MatchingUnits(ledger, last'.op, last'.name, last'.in) # {}) =>
        LET u == CHOOSE k \in MatchingUnits(ledger, last'.op, last'.name, last'.in) : TRUE
            product == ProductOfUnit(ledger, u)
        IN last'.event.TotalBill =
               IF last'.op = "ShipToChemist"
               THEN last'.in.perUnitSellingPrice * product.packetCapacity
               ELSE product.price * product.packetCapacity]_vars

Selector(op, owner, in) ==
    IF op = "ShipToDistributor" THEN [owner |-> owner, cartonId |-> in.cartonId]
    ELSE [owner |-> owner, id |-> in.packetId]

BundleId(op, in) == IF op = "ShipToDistributor" THEN in.cartonId ELSE in.packetId

\* C14 (as claimed): a successful transfer adds exactly one receipt, under
\* its own transaction id, naming the caller as supplier, the counterparty
\* as customer, the carton or unit id as bundle and the product id of the
\* matched records; every other invocation adds none; no stored receipt is
\* ever changed.
C14_OneReceiptPerTransfer ==
    [][/\ \A k \in Receipts(ledger) : k \in Receipts(ledger') /\ ledger'[k] = ledger[k]
       /\ IF last'.op \in Transfers /\ last'.ok
          THEN /\ <<last'.txId>> \notin DOMAIN ledger
               /\ Receipts(ledger') = Receipts(ledger) \cup {<<last'.txId>>}
               /\ LET r == ledger'[<<last'.txId>>]
                  IN /\ r.id = last'.txId
                     /\ r.supplierId = last'.name
                     /\ r.customerId = last'.in.customerId
                     /\ r.bundleId = BundleId(last'.op, last'.in)
                     /\ \E k \in GetQueryResult(ledger, Selector(last'.op, last'.name, last'.in)) :
                           r.productId = Field(ledger[k], "productId", "")
          ELSE Receipts(ledger') = Receipts(ledger)]_vars

\* C15 (as claimed): a unit matched by a successful transfer gets the
\* transfer's counterparty as owner; a unit that comes into existence is
\* owned by the manufacturer that created it; the owner of every other unit
\* is left as it was.
C15_OwnerIsLastCounterparty ==
    [][\A k \in Units(ledger') :
          IF /\ last'.op \in Transfers /\ last'.ok
             /\ k \in MatchingUnits(ledger, last'.op, last'.name, last'.in)
          THEN ledger'[k].owner = last'.in.customerId
          ELSE IF k \in Units(ledger)
          THEN ledger'[k].owner = ledger[k].owner
          ELSE /\ last'.op = "AddBatch"
               /\ ledger'[k].owner = last'.name
               /\ ledger'[k].manufacturerId = last'.name]_vars

\* C16 (as claimed): a unit whose status is SoldToCustomer keeps its owner
\* and its status in every later invocation.
C16_SoldIsTerminal ==
    [][\A k \in Units(ledger) :
          ledger[k].status = SoldToCustomer =>
              /\ k \in Units(ledger')
              /\ ledger'[k].owner = ledger[k].owner
              /\ ledger'[k].status = SoldToCustomer]_vars

SupplierRole(op) ==
    IF op = "ShipToDistributor" THEN MANUFACTURER
    ELSE IF op = "ShipToChemist" THEN DISTRIBUTER
    ELSE CHEMIST

\* C17 (as claimed): a transfer invoked by a caller whose role is not the
\* supplier role of that transfer (manufacturer, distributor, chemist in
\* this order) is rejected with nothing changed.
C17_TransferNeedsSupplierRole ==
    [][(last'.op \in Transfers /\ last'.role # SupplierRole(last'.op)) =>
            ~last'.ok /\ Unchanged]_vars

\* C18: AddBatch succeeds only for an active caller of role MANUFACTURER
\* whose product (product id + caller id, ITEM) is registered and not
\* suspended and whose expiry date is greater than the manufacturing date;
\* otherwise it returns an error and the ledger and every history are
\* unchanged.
C18_BatchPreconditions ==
    [][last'.op = "AddBatch" =>
        LET pre == /\ last'.role = MANUFACTURER
                   /\ ActiveParty(ledger, last'.name, last'.role)
                   /\ ActiveParty(ledger, last'.in.productId \o last'.name, ITEM)
                   /\ last'.in.expiryDate > last'.in.manufacturingDate
        IN /\ last'.ok => pre
           /\ ~pre => (~last'.ok /\ last'.err # "" /\ Unchanged)]_vars

\* an active manufacturer with an active product was refused a batch whose
\* expiry date is not after its manufacturing date
C18_Witness ==
    /\ last.op = "AddBatch" /\ ~last.ok /\ last.err = "Validation"
    /\ last.in.expiryDate <= last.in.manufacturingDate
    /\ last.role = MANUFACTURER
    /\ ActiveParty(ledger, last.name, MANUFACTURER)
    /\ ActiveParty(ledger, last.in.productId \o last.name, ITEM)

IsReceipt(d) == ~IsNil(d) /\ Field(d, "docType", "") = RECEIPT

\* C19: ViewReceipt answers only with a stored receipt and only when the
\* caller's id is the receipt's supplierId or customerId; an active caller
\* that is one of the two gets the receipt, every other active caller is
\* refused as not authorized; nothing is written.
C19_ReceiptOnlyToParties ==
    [][last'.op = "ViewReceipt" =>
        LET doc == GetState(ledger, last'.in.receiptId)
            party == IsReceipt(doc) /\ last'.name \in {doc.supplierId, doc.customerId}
            active == ActiveParty(ledger, last'.name, last'.role)
        IN /\ Unchanged
           /\ last'.ok => (party /\ last'.out = doc)
           /\ (active /\ party) => (last'.ok /\ last'.out = doc)
           /\ (active /\ IsReceipt(doc) /\ ~party) =>
                  (~last'.ok /\ last'.err = "NotAuthorized")
           /\ (active /\ ~IsNil(doc) /\ ~IsReceipt(doc)) => ~last'.ok]_vars

\* an active caller named on no side of a stored receipt was refused it
C19_Witness ==
    /\ last.op = "ViewReceipt" /\ ~last.ok /\ last.err = "NotAuthorized"
    /\ ActiveParty(ledger, last.name, last.role)
    /\ IsReceipt(GetState(ledger, last.in.receiptId))
    /\ last.name \notin {ledger[last.in.receiptId].supplierId,
                          ledger[last.in.receiptId].customerId}

Parties(l) == {k \in DOMAIN l : ~IsFlat(k) /\ k[2] \in Roles}

\* C20: VaccineChainAdmin succeeds only when the caller is the super admin
\* and no record is stored under the request's id and docType; a call by
\* anyone else is refused as permission denied, a call for an id and
\* docType already stored is refused, and both leave the ledger unchanged;
\* no registration changes a party record that is already stored.
C20_AdminRegistration ==
    [][/\ last'.op = "VaccineChainAdmin" =>
            LET key == <<last'.in.id, last'.in.docType>>
            IN /\ last'.ok => (last'.name = SUPER_ADMIN /\ key \notin DOMAIN ledger)
               /\ last'.name # SUPER_ADMIN =>
                      (~last'.ok /\ last'.err = "PermissionDenied" /\ Unchanged)
               /\ key \in DOMAIN ledger => (~last'.ok /\ Unchanged)
       /\ last'.op \in {"VaccineChainAdmin", "AddEntity"} =>
            \A k \in Parties(ledger) : k \in DOMAIN ledger' /\ ledger'[k] = ledger[k]]_vars

\* the super admin was refused the registration of an administrator that is
\* already stored, here in suspended state
C20_Witness ==
    /\ last.op = "VaccineChainAdmin" /\ ~last.ok /\ last.err = "AlreadyExists"
    /\ last.name = SUPER_ADMIN
    /\ Registered(ledger, last.in.id, last.in.docType)
    /\ ledger[<<last.in.id, last.in.docType>>].suspended

\* C21 (as claimed): AddEntity succeeds only for an active caller of role
\* VACCINE_CHAIN_ADMIN and a request whose id and docType hold no record,
\* and the party record it stores has suspended = false and batchCount = 0.
C21_NewPartyStartsActive ==
    [][(last'.op = "AddEntity" /\ last'.ok) =>
        LET key == <<last'.in.id, last'.in.docType>>
        IN /\ last'.role = VACCINE_CHAIN_ADMIN
           /\ ActiveParty(ledger, last'.name, last'.role)
           /\ key \notin DOMAIN ledger
           /\ key \in DOMAIN ledger'
           /\ ~Field(ledger'[key], "suspended", FALSE)
           /\ Field(ledger'[key], "batchCount", 0) = 0]_vars

StatusOps == {"ChangeStatus", "ChangeAdminStatus", "ChangeEntityStatus"}

\* the caller a status change accepts for its target: the super admin for an
\* administrator, an active administrator for the three supply-chain roles
MayChangeStatus(l, op, name, role, in) ==
    IF in.docType = VACCINE_CHAIN_ADMIN
    THEN op # "ChangeEntityStatus" /\ name = SUPER_ADMIN
    ELSE /\ op # "ChangeAdminStatus"
         /\ in.docType \in {MANUFACTURER, DISTRIBUTER, CHEMIST}
         /\ role = VACCINE_CHAIN_ADMIN
         /\ ActiveParty(l, name, role)

\* C22: the suspended flag of a stored party changes only in a successful
\* ChangeStatus, ChangeAdminStatus or ChangeEntityStatus that names this
\* party, is invoked by the super admin for an administrator or by an active
\* administrator for a manufacturer, distributor or chemist, and then takes
\* the requested value; such a caller is refused with NotFound when the id
\* and docType hold no record and with NoOp when the requested value is the
\* stored one; every refused call leaves the ledger and every history
\* unchanged.
C22_StatusChange ==
    [][/\ \A k \in Parties(ledger) :
             /\ k \in DOMAIN ledger'
             /\ SuspendStatus(ledger'[k]) # SuspendStatus(ledger[k]) =>
                   /\ last'.op \in StatusOps /\ last'.ok
                   /\ last'.in.id = k[1] /\ last'.in.docType = k[2]
                   /\ MayChangeStatus(ledger, last'.op, last'.name, last'.role, last'.in)
                   /\ SuspendStatus(ledger'[k]) = last'.in.status
       /\ last'.op \in StatusOps =>
             LET key == <<last'.in.id, last'.in.docType>>
                 may == MayChangeStatus(ledger, last'.op, last'.name, last'.role, last'.in)
             IN /\ ~last'.ok => Unchanged
                /\ ~may => ~last'.ok
                /\ (may /\ key \notin DOMAIN ledger) =>
                       (~last'.ok /\ last'.err = "NotFound")
                /\ (may /\ key \in DOMAIN ledger
                        /\ SuspendStatus(ledger[key]) = last'.in.status) =>
                       (~last'.ok /\ last'.err = "NoOp")]_vars

\* an active administrator has just suspended a registered manufacturer,
\* distributor or chemist
C22_Witness ==
    /\ last.op \in {"ChangeStatus", "ChangeEntityStatus"} /\ last.ok
    /\ last.fault = "none" /\ last.in.status
    /\ last.role = VACCINE_CHAIN_ADMIN
    /\ ActiveParty(ledger, last.name, last.role)
    /\ Registered(ledger, last.in.id, last.in.docType)
    /\ SuspendStatus(ledger[<<last.in.id, last.in.docType>>])

\* an authorised caller was refused a status the target already has
C22_WitnessNoOp ==
    /\ last.op \in StatusOps /\ ~last.ok /\ last.err = "NoOp"
    /\ MayChangeStatus(ledger, last.op, last.name, last.role, last.in)
    /\ SuspendStatus(ledger[<<last.in.id, last.in.docType>>]) = last.in.status

RevisionsOf(h, k) == IF k \in DOMAIN h THEN h[k] ELSE << >>

\* what a revision contributes to the answer of TrackPacket
EntryOf(rev) == [id |-> rev.value.id, owner |-> rev.value.owner,
                 status |-> rev.value.status, txId |-> rev.txId, isDelete |-> FALSE]

\* C23 (as claimed): TrackPacket on a unit answers with one entry per
\* revision of the unit, oldest first, the i-th carrying the id, owner,
\* status and transaction id of the i-th write and the last one the stored
\* owner and status; a unit gets its first revision when it is created and
\* one more revision in each successful transfer that matches it, and in no
\* other invocation, so that t transfers leave t+1 entries.
C23_TrackPacketReplaysTransfers ==
    [][/\ \A k \in Units(ledger') :
             LET old == RevisionsOf(history, k)
                 new == TrackPacket(history', k[1])
                 moved == /\ last'.op \in Transfers /\ last'.ok
                          /\ k \in MatchingUnits(ledger, last'.op, last'.name, last'.in)
                 grown == IF moved \/ k \notin Units(ledger) THEN 1 ELSE 0
             IN /\ new.err = ""
                /\ Len(new.histories) = Len(old) + grown
                /\ \A i \in 1..Len(old) : new.histories[i] = EntryOf(old[i])
                /\ grown = 1 => new.histories[Len(old) + 1].txId = last'.txId
                /\ new.histories[Len(new.histories)].id = ledger'[k].id
                /\ new.histories[Len(new.histories)].owner = ledger'[k].owner
                /\ new.histories[Len(new.histories)].status = ledger'[k].status
       /\ (last'.op = "TrackPacket" /\ <<last'.in.key>> \in Units(ledger)) =>
             /\ last'.ok
             /\ last'.out = [i \in 1..Len(history[<<last'.in.key>>]) |->
                                EntryOf(history[<<last'.in.key>>][i])]]_vars

(***************************************************************************)
(* TrackPacket over revision logs.  The history database of the platform   *)
(* records deletions as well as writes; TrackPacket reads IsDelete of each *)
(* revision it is handed.  The logs below are every sequence of at most    *)
(* MaxRevs revisions of one key, each a unit as created, the unit as sold, *)
(* a receipt, or a deletion.                                               *)
(***************************************************************************)
MaxRevs == 3

RevisionKinds == {"created", "sold", "receipt", "deleted"}

LoggedKey == "m_B0_C1_P1"

RevisionValue(kind, txid) ==
    CASE kind = "created" ->
             [id |-> LoggedKey, batchId |-> "B0", cartonId |-> "B0_C1", owner |-> "m",
              status |-> ReadyForDistribution, productId |-> "p", manufacturerId |-> "m",
              manufacturingDate |-> 1, expiryDate |-> 2, docType |-> ASSET]
      [] kind = "sold" ->
             [id |-> LoggedKey, batchId |-> "B0", cartonId |-> "B0_C1", owner |-> "x1",
              status |-> SoldToCustomer, productId |-> "p", manufacturerId |-> "m",
              manufacturingDate |-> 1, expiryDate |-> 2, docType |-> ASSET]
      [] kind = "receipt" -> createReceipt(txid, LoggedKey, "m", "x1", "p", 15)[2]
      [] kind = "deleted" -> Nil

RevisionLog(kinds) ==
    [i \in 1..Len(kinds) |->
        [value |-> RevisionValue(kinds[i], GetTxID(i - 1)),
         txId |-> GetTxID(i - 1),
         isDelete |-> kinds[i] = "deleted"]]

RevisionLogs == {RevisionLog(kinds) : kinds \in UNION {[1..n -> RevisionKinds] : n \in 0..MaxRevs}}

\* the world state holds the value of the latest revision unless it is a deletion
StateOfLog(log) ==
    IF log = << >> \/ log[Len(log)].isDelete THEN << >>
    ELSE [k \in {FlatKey(LoggedKey)} |-> log[Len(log)].value]

InitHistory ==
    /\ storeFails = FALSE
    /\ \E log \in RevisionLogs :
          /\ history = (IF log = << >> THEN << >> ELSE [k \in {FlatKey(LoggedKey)} |-> log])
          /\ ledger = StateOfLog(log)
          /\ txCount = Len(log)
    /\ last = Idle
    /\ pending = {}
    /\ version = << >>
    /\ loop = NoLoop

NextHistory ==
    \/ DoTrackPacket
    \/ Respond

SpecHistory == InitHistory /\ [][NextHistory]_vars

\* index of the first revision of a log that is not a deletion, 0 if none
FirstLive(log) ==
    IF \A i \in 1..Len(log) : log[i].isDelete THEN 0
    ELSE CHOOSE i \in 1..Len(log) :
            ~log[i].isDelete /\ \A j \in 1..(i - 1) : log[j].isDelete

C26_FailedWriteFailsCall ==
    [][last'.fault \in {"put", "batch", "unit", "counter", "receipt"} => ~last'.ok]_vars

\* C27 (as claimed): a transfer whose unit rewrites and receipt write
\* succeeded and whose SetEvent fails still returns success and commits its
\* unit rewrites and its receipt.
C27_EventIsBestEffort ==
    [][(last'.op \in Transfers /\ last'.fault = "event") =>
            /\ last'.ok
            /\ <<last'.txId>> \in Receipts(ledger')
            /\ \A k \in MatchingUnits(ledger, last'.op, last'.name, last'.in) :
                  ledger'[k].owner = last'.in.customerId]_vars

(***************************************************************************)
(* Concurrent invocations.  An invocation is first executed against the    *)
(* committed state, which yields the versions of the keys it read with     *)
(* GetState and its write set; the endorsed invocations are committed one  *)
(* at a time, in any order, and the store rejects one that read a key      *)
(* whose version has changed since.                                        *)
(***************************************************************************)
MaxProposals == 2

VersionOf(v, k) == IF k \in DOMAIN v THEN v[k] ELSE ""

RECURSIVE Stamp(_, _, _)
Stamp(v, writes, txid) ==
    IF writes = << >> THEN v
    ELSE Stamp([x \in DOMAIN v \cup {Head(writes)[1]} |->
                   IF x = Head(writes)[1] THEN txid ELSE v[x]],
               Tail(writes), txid)

\* the store after committing a write set under a transaction id
Committed(st, writes, txid) ==
    [ledger |-> Apply(st.ledger, writes),
     history |-> Record(st.history, writes, txid),
     version |-> Stamp(st.version, writes, txid),
     txCount |-> st.txCount + 1]

\* an administrator, a manufacturer with a product and one batch of one
\* carton, a distributor and a chemist, registered one after the other
Setup ==
    LET admin == [name |-> SUPER_ADMIN, role |-> ""]
        a1 == [name |-> "a1", role |-> VACCINE_CHAIN_ADMIN]
        m == [name |-> "m", role |-> MANUFACTURER]
        party(i, r) == [id |-> i, licenseNo |-> "L" \o i, docType |-> r,
                        suspended |-> FALSE, batchCount |-> 0]
        product == [id |-> "p", docType |-> ITEM, price |-> PriceOf("p"),
                    cartonCapacity |-> MaxCapacity, packetCapacity |-> PacketCapacityOf("p"),
                    suspended |-> FALSE, owner |-> ""]
        batch == [owner |-> "m", productId |-> "p", manufacturingDate |-> 1,
                  expiryDate |-> 2, cartonQnty |-> 1]
        s0 == [ledger |-> << >>, history |-> << >>, version |-> << >>, txCount |-> 0]
        s1 == Committed(s0, VaccineChainAdmin(s0.ledger, admin,
                                party("a1", VACCINE_CHAIN_ADMIN), "none").writes, GetTxID(0))
        s2 == Committed(s1, AddEntity(s1.ledger, a1, party("m", MANUFACTURER), "none").writes,
                        GetTxID(1))
        s3 == Committed(s2, AddEntity(s2.ledger, a1, party("d1", DISTRIBUTER), "none").writes,
                        GetTxID(2))
        s4 == Committed(s3, AddEntity(s3.ledger, a1, party("c1", CHEMIST), "none").writes,
                        GetTxID(3))
        s5 == Committed(s4, AddProduct(s4.ledger, m, product, "none").writes, GetTxID(4))
    IN Committed(s5, AddBatch(s5.ledger, m, batch, "none").writes, GetTxID(5))

InitConcurrent ==
    /\ storeFails \in BOOLEAN
    /\ ledger = Setup.ledger
    /\ history = Setup.history
    /\ version = Setup.version
    /\ txCount = Setup.txCount
    /\ pending = {}
    /\ last = Idle
    /\ loop = NoLoop

\* the keys a transfer reads with GetState: the caller's record, the
\* counterparty's record, every record the selector matched and the product
TransferReads(l, cert, counterparty, selector, lastKey) ==
    {CompositeKey(cert.name, cert.role)}
        \cup counterparty
        \cup GetQueryResult(l, selector)
        \cup {CompositeKey(Asset(GetState(l, lastKey)).productId
                              \o Asset(GetState(l, lastKey)).manufacturerId, ITEM)}

\* the keys AddBatch reads with GetState: the caller's record and the product
BatchReads(cert, in) ==
    {CompositeKey(cert.name, cert.role), CompositeKey(in.productId \o cert.name, ITEM)}

CanPropose == txCount < Setup.txCount + MaxProposals /\ last = Idle

\* an invocation that returns an error is answered and goes no further
Endorse(op, cert, in, res, reads) ==
    /\ last' = [op |-> op, name |-> cert.name, role |-> cert.role, in |-> in,
                ok |-> res.ok, err |-> res.err, fault |-> res.fault,
                event |-> res.event, txId |-> GetTxID(txCount), out |-> NoOutput]
    /\ IF res.ok
       THEN /\ pending' = pending \cup
                   {[op |-> op, name |-> cert.name, role |-> cert.role, in |-> in,
                     txId |-> GetTxID(txCount),
                     reads |-> [k \in reads |-> [version |-> VersionOf(version, k),
                                                 value |-> GetState(ledger, k)]],
                     writes |-> res.writes, event |-> res.event, fault |-> res.fault]}
            /\ txCount' = txCount + 1
       ELSE UNCHANGED <<pending, txCount>>
    /\ UNCHANGED <<ledger, history, version, storeFails, loop>>

EndorseAddBatch ==
    /\ CanPropose
    /\ \E cert \in Certs, in \in BatchInputs :
      \E fault \in FaultsOf(AddBatch(ledger, cert, in, "none"),
                            {"none", "batch", "unit", "counter"}) :
        \E res \in {AddBatch(ledger, cert, in, fault)} :
            Endorse("AddBatch", cert, in, res, BatchReads(cert, in))

EndorseShipToDistributor ==
    /\ CanPropose
    /\ \E cert \in Certs, in \in DistributorShipments :
      \E lastKey \in LastKeys([owner |-> cert.name, cartonId |-> in.cartonId]) :
        \E fault \in FaultsOf(ShipToDistributor(ledger, cert, in, lastKey, "none", GetTxID(txCount)),
                              {"none", "unit", "receipt", "event"}) :
          \E res \in {ShipToDistributor(ledger, cert, in, lastKey, fault, GetTxID(txCount))} :
            Endorse("ShipToDistributor", cert, in, res,
                    TransferReads(ledger, cert, {CompositeKey(in.customerId, DISTRIBUTER)},
                                  [owner |-> cert.name, cartonId |-> in.cartonId], lastKey))

EndorseShipToChemist ==
    /\ CanPropose
    /\ \E cert \in Certs, in \in ChemistShipments :
      \E lastKey \in LastKeys([owner |-> cert.name, id |-> in.packetId]) :
        \E fault \in FaultsOf(ShipToChemist(ledger, cert, in, lastKey, "none", GetTxID(txCount)),
                              {"none", "unit", "receipt", "event"}) :
          \E res \in {ShipToChemist(ledger, cert, in, lastKey, fault, GetTxID(txCount))} :
            Endorse("ShipToChemist", cert, in, res,
                    TransferReads(ledger, cert, {CompositeKey(in.customerId, CHEMIST)},
                                  [owner |-> cert.name, id |-> in.packetId], lastKey))

EndorseShipToCustomer ==
    /\ CanPropose
    /\ \E cert \in Certs, in \in CustomerSales :
      \E lastKey \in LastKeys([owner |-> cert.name, id |-> in.packetId]) :
        \E fault \in FaultsOf(ShipToCustomer(ledger, cert, in, lastKey, "none", GetTxID(txCount)),
                              {"none", "unit", "receipt", "event"}) :
          \E res \in {ShipToCustomer(ledger, cert, in, lastKey, fault, GetTxID(txCount))} :
            Endorse("ShipToCustomer", cert, in, res,
                    TransferReads(ledger, cert, {},
                                  [owner |-> cert.name, id |-> in.packetId], lastKey))

\* no key the invocation read has been written since
ReadsValid(tx) ==
    \A k \in DOMAIN tx.reads : VersionOf(version, k) = tx.reads[k].version

Commit ==
    /\ last = Idle
    /\ \E tx \in pending :
          /\ pending' = pending \ {tx}
          /\ last' = [op |-> "Commit", name |-> tx.name, role |-> tx.role, in |-> tx,
                      ok |-> ReadsValid(tx),
                      err |-> IF ReadsValid(tx) THEN "" ELSE "ReadConflict",
                      fault |-> tx.fault,
                      event |-> IF ReadsValid(tx) THEN tx.event ELSE NoEvent,
                      txId |-> tx.txId, out |-> NoOutput]
          /\ IF ReadsValid(tx)
             THEN /\ ledger' = Apply(ledger, tx.writes)
                  /\ history' = Record(history, tx.writes, tx.txId)
                  /\ version' = Stamp(version, tx.writes, tx.txId)
             ELSE UNCHANGED <<ledger, history, version>>
          /\ UNCHANGED <<txCount, storeFails, loop>>

NextConcurrent ==
    \/ EndorseAddBatch
    \/ EndorseShipToDistributor
    \/ EndorseShipToChemist
    \/ EndorseShipToCustomer
    \/ Commit
    \/ Respond

SpecConcurrent == InitConcurrent /\ [][NextConcurrent]_vars

\* the concurrent runs in which every PutState succeeds
InitConcurrentReliable == InitConcurrent /\ ~storeFails

SpecConcurrentReliable == InitConcurrentReliable /\ [][NextConcurrent]_vars

\* the units an endorsed transfer matched
UnitsRead(tx) ==
    {k \in DOMAIN tx.reads : IsFlat(k) /\ Field(tx.reads[k].value, "docType", "") = ASSET}

\* C28 (as claimed): a transfer that is committed finds every unit it matched
\* as it read it, so of two transfers that matched the same unit in the
\* same state at most one is committed; the committed one leaves its
\* counterparty as owner of the units and exactly one receipt, its own; a
\* rejected one leaves the ledger and every history unchanged.
C28_OneOfTwoTransfersCommits ==
    [][(last'.op = "Commit" /\ last'.in.op \in Transfers) =>
        LET tx == last'.in
        IN /\ last'.ok =>
                 /\ \A k \in UnitsRead(tx) :
                       /\ ledger[k] = tx.reads[k].value
                       /\ ledger'[k].owner = tx.in.customerId
                 /\ <<tx.txId>> \notin DOMAIN ledger
                 /\ Receipts(ledger') = Receipts(ledger) \cup {<<tx.txId>>}
           /\ ~last'.ok => Unchanged]_vars

BatchesOf(l, m) == {k \in BatchKeys(l) : k[1] = m}

\* C29 (as claimed): an AddBatch that is committed writes a batch id and
\* unit ids that no committed batch holds, and leaves the manufacturer's
\* batchCount equal to the number of its committed batches, so of two
\* AddBatch calls that read the same batchCount at most one is committed.
C29_OneOfTwoBatchesCommits ==
    [][(last'.op = "Commit" /\ last'.in.op = "AddBatch" /\ last'.ok) =>
        LET tx == last'.in
            m == <<tx.name, MANUFACTURER>>
        IN /\ \A i \in 1..Len(tx.writes) :
                 tx.writes[i][1] # m => tx.writes[i][1] \notin DOMAIN ledger
           /\ BatchCountOf(ledger, m) = Field(tx.reads[m].value, "batchCount", 0)
           /\ BatchCountOf(ledger', m) = Cardinality(BatchesOf(ledger', tx.name))]_vars

Products(l) == {k \in DOMAIN l : ~IsFlat(k) /\ k[2] = ITEM}

\* the products stored with this id by this owner
ProductsOf(l, id, owner) ==
    {k \in Products(l) : Field(l[k], "id", "") = id /\ Field(l[k], "owner", "") = owner}

\* C30: AddProduct succeeds only for an active caller of role MANUFACTURER
\* that has no product stored with the request's id, and then stores the
\* product with owner = caller id; a caller that already has a product with
\* this id is refused; a refused call leaves the ledger and every history
\* unchanged and no call changes a stored product; no two stored products
\* have the same id and owner.
C30_ProductUniquePerManufacturer ==
    [][last'.op = "AddProduct" =>
        LET mine == ProductsOf(ledger, last'.in.id, last'.name)
        IN /\ last'.ok =>
                 /\ last'.role = MANUFACTURER
                 /\ ActiveParty(ledger, last'.name, last'.role)
                 /\ mine = {}
                 /\ \E k \in Products(ledger') \ Products(ledger) :
                       /\ Products(ledger') = Products(ledger) \cup {k}
                       /\ ledger'[k].id = last'.in.id
                       /\ ledger'[k].owner = last'.name
                       /\ ledger'[k].price = last'.in.price
           /\ mine # {} => (~last'.ok /\ Unchanged)
           /\ (mine # {} /\ last'.role = MANUFACTURER
                        /\ ActiveParty(ledger, last'.name, last'.role)) =>
                 last'.err = "AlreadyExists"
           /\ ~last'.ok => Unchanged
           /\ \A k \in Products(ledger) : k \in DOMAIN ledger' /\ ledger'[k] = ledger[k]
           /\ \A k1, k2 \in Products(ledger') :
                 (ledger'[k1].id = ledger'[k2].id /\ ledger'[k1].owner = ledger'[k2].owner)
                     => k1 = k2]_vars

\* an active manufacturer was refused a product id it has registered, with
\* a request that differs from the stored product
C30_Witness ==
    /\ last.op = "AddProduct" /\ ~last.ok /\ last.err = "AlreadyExists"
    /\ last.role = MANUFACTURER
    /\ ActiveParty(ledger, last.name, last.role)
    /\ \E k \in ProductsOf(ledger, last.in.id, last.name) :
          ledger[k].cartonCapacity # last.in.cartonCapacity

\* C32: in every reachable state a unit with status ReadyForDistribution is
\* owned by its manufacturerId, a unit with status ReceivedAtDistributor is
\* owned by an id registered as distributor, and a unit with status
\* ChemistInventoryReceived is owned by an id registered as chemist.
C32_StatusDeterminesOwnerRole ==
    \A k \in Units(ledger) :
        /\ ledger[k].status = ReadyForDistribution =>
              ledger[k].owner = ledger[k].manufacturerId
        /\ ledger[k].status = ReceivedAtDistributor =>
              Registered(ledger, ledger[k].owner, DISTRIBUTER)
        /\ ledger[k].status = ChemistInventoryReceived =>
              Registered(ledger, ledger[k].owner, CHEMIST)

\* a unit has just been received by a chemist
C32_Witness ==
    /\ last.op = "ShipToChemist" /\ last.ok
    /\ \E k \in Units(ledger) :
          /\ ledger[k].status = ChemistInventoryReceived
          /\ ledger[k].owner = last.in.customerId
          /\ ledger[k].owner # ledger[k].manufacturerId

\* a unit has just been received by a distributor
C32_WitnessDistributor ==
    /\ last.op = "ShipToDistributor" /\ last.ok
    /\ \E k \in Units(ledger) :
          /\ ledger[k].status = ReceivedAtDistributor
          /\ ledger[k].owner = last.in.customerId

\* C33 (as claimed): a successful transfer changes only the owner and the
\* status of the units it matches and leaves every other stored record
\* (unmatched units, parties, products, batches) as it was; no step removes
\* a unit, and the set of unit ids grows only in a successful AddBatch.
C33_TransferChangesOwnerAndStatusOnly ==
    [][/\ Units(ledger) \subseteq Units(ledger')
       /\ Units(ledger') # Units(ledger) => (last'.op = "AddBatch" /\ last'.ok)
       /\ (last'.op \in Transfers /\ last'.ok) =>
             \A k \in DOMAIN ledger :
                /\ k \in DOMAIN ledger'
                /\ IF k \in MatchingUnits(ledger, last'.op, last'.name, last'.in)
                   THEN ledger'[k] = [ledger[k] EXCEPT !.owner = ledger'[k].owner,
                                                       !.status = ledger'[k].status]
                   ELSE ledger'[k] = ledger[k]]_vars

\* C34: a successful ChangeStatus leaves every stored record other than the
\* target party as it was, adds and removes no key, writes no revision, and
\* leaves the target's id, license number, role tag and batchCount as they
\* were: at most the suspended flag of the target differs.
C34_StatusChangeKeepsProfile ==
    [][(last'.op = "ChangeStatus" /\ last'.ok) =>
        LET key == <<last'.in.id, last'.in.docType>>
        IN /\ key \in DOMAIN ledger
           /\ DOMAIN ledger' = DOMAIN ledger
           /\ history' = history
           /\ \A k \in DOMAIN ledger \ {key} : ledger'[k] = ledger[k]
           /\ \A f \in {"id", "licenseNo", "docType"} :
                 Field(ledger'[key], f, "") = Field(ledger[key], f, "")
           /\ Field(ledger'[key], "batchCount", 0) = Field(ledger[key], "batchCount", 0)
           /\ DOMAIN ledger'[key] = DOMAIN ledger[key]]_vars

\* a manufacturer that has created a batch has just been suspended
C34_Witness ==
    /\ last.op = "ChangeStatus" /\ last.ok /\ last.fault = "none"
    /\ last.in.docType = MANUFACTURER /\ last.in.status
    /\ Registered(ledger, last.in.id, MANUFACTURER)
    /\ LET rec == ledger[<<last.in.id, MANUFACTURER>>]
       IN /\ rec.suspended
          /\ Field(rec, "batchCount", 0) >= 1
          /\ Field(rec, "licenseNo", "") # ""

\* a suspended manufacturer that has created a batch has just been re-activated
C34_WitnessReactivated ==
    /\ last.op = "ChangeStatus" /\ last.ok /\ last.fault = "none"
    /\ last.in.docType = MANUFACTURER /\ ~last.in.status
    /\ Registered(ledger, last.in.id, MANUFACTURER)
    /\ LET rec == ledger[<<last.in.id, MANUFACTURER>>]
       IN ~rec.suspended /\ Field(rec, "batchCount", 0) >= 1

\* the product a matched record refers to resolves to an active product
ProductResolves(l, k) ==
    IsActiveErr(l, Asset(l[k]).productId \o Asset(l[k]).manufacturerId, ITEM) = ""

MaxInt16 == 32767
MinInt16 == -MaxInt16 - 1

LoopQuantities == {MinInt16, -1, 0, MaxCartons, MaxInt16}
LoopCapacities == {-1, 0, MaxCapacity, MaxInt16}

\* var i, j int16; i = 1 is the outer loop's initialisation
InitLoops ==
    /\ storeFails = FALSE
    /\ ledger = << >>
    /\ history = << >>
    /\ txCount = 0
    /\ last = Idle
    /\ pending = {}
    /\ version = << >>
    /\ \E q \in LoopQuantities, c \in LoopCapacities :
          loop = [pc |-> "outer", i |-> 1, j |-> 0,
                  cartonQnty |-> q, cartonCapacity |-> c]

LoopStep(next) ==
    /\ loop' = next
    /\ UNCHANGED <<ledger, history, txCount, last, storeFails, pending, version>>

\* i <= batchInput.CartonQnty holds: the inner loop starts with j = 1
EnterCarton ==
    /\ loop.pc = "outer"
    /\ loop.i <= loop.cartonQnty
    /\ LoopStep([loop EXCEPT !.pc = "inner", !.j = 1])

\* i <= batchInput.CartonQnty fails: the loops are left
LeaveLoops ==
    /\ loop.pc = "outer"
    /\ ~(loop.i <= loop.cartonQnty)
    /\ LoopStep([loop EXCEPT !.pc = "done"])

\* j <= productDetails.CartonCapacity holds: one unit is put, then j++
PutUnit ==
    /\ loop.pc = "inner"
    /\ loop.j <= loop.cartonCapacity
    /\ LoopStep([loop EXCEPT !.j = Int16(loop.j + 1)])

\* j <= productDetails.CartonCapacity fails: i++ and back to the outer test
LeaveCarton ==
    /\ loop.pc = "inner"
    /\ ~(loop.j <= loop.cartonCapacity)
    /\ LoopStep([loop EXCEPT !.pc = "outer", !.i = Int16(loop.i + 1)])

NextLoops ==
    \/ EnterCarton
    \/ LeaveLoops
    \/ PutUnit
    \/ LeaveCarton

\* the invocation keeps running until it returns
SpecLoops == InitLoops /\ [][NextLoops]_vars /\ WF_vars(NextLoops)

\* C38 (as claimed): for every carton quantity and carton capacity the
\* unit-generation loops of AddBatch are eventually left.
C38_AddBatchTerminates == <>(loop.pc = "done")

(***************************************************************************)
(* Runs with overlapping identifiers: two manufacturers "m" and "mm", and  *)
(* the id "d1" registered both as distributor and as chemist.  Every       *)
(* PutState succeeds in these runs.                                        *)
(***************************************************************************)
MaxSharedTx == 3

PartyInput(i, r) ==
    [id |-> i, licenseNo |-> "L" \o i, docType |-> r, suspended |-> FALSE, batchCount |-> 0]

ProductInput(i, price, packetCapacity) ==
    [id |-> i, docType |-> ITEM, price |-> price, cartonCapacity |-> MaxCapacity,
     packetCapacity |-> packetCapacity, suspended |-> FALSE, owner |-> ""]

BatchInput(m, i) ==
    [owner |-> m, productId |-> i, manufacturingDate |-> 1, expiryDate |-> 2,
     cartonQnty |-> MaxCartons]

SharedCerts == {[name |-> SUPER_ADMIN, role |-> ""],
                [name |-> "a1", role |-> VACCINE_CHAIN_ADMIN],
                [name |-> "m", role |-> MANUFACTURER],
                [name |-> "mm", role |-> MANUFACTURER],
                [name |-> "d1", role |-> DISTRIBUTER],
                [name |-> "d1", role |-> CHEMIST]}

\* the contract function an invocation names
Run(l, op, cert, in) ==
    CASE op = "VaccineChainAdmin" -> VaccineChainAdmin(l, cert, in, "none")
      [] op = "AddEntity" -> AddEntity(l, cert, in, "none")
      [] op = "AddProduct" -> AddProduct(l, cert, in, "none")
      [] op = "AddBatch" -> AddBatch(l, cert, in, "none")

\* the invocations that populate the ledger first, in this order: an
\* administrator, the manufacturers m and mm, d1 as distributor and d1 as
\* chemist; each manufacturer registers a product "pm" and creates one
\* batch of it
SharedSetup ==
    LET call(o, n, r, i) == [op |-> o, cert |-> [name |-> n, role |-> r], in |-> i]
    IN << call("VaccineChainAdmin", SUPER_ADMIN, "", PartyInput("a1", VACCINE_CHAIN_ADMIN)),
          call("AddEntity", "a1", VACCINE_CHAIN_ADMIN, PartyInput("m", MANUFACTURER)),
          call("AddEntity", "a1", VACCINE_CHAIN_ADMIN, PartyInput("mm", MANUFACTURER)),
          call("AddEntity", "a1", VACCINE_CHAIN_ADMIN, PartyInput("d1", DISTRIBUTER)),
          call("AddEntity", "a1", VACCINE_CHAIN_ADMIN, PartyInput("d1", CHEMIST)),
          call("AddProduct", "m", MANUFACTURER, ProductInput("pm", 5, 3)),
          call("AddProduct", "mm", MANUFACTURER, ProductInput("pm", 7, 4)),
          call("AddBatch", "m", MANUFACTURER, BatchInput("m", "pm")),
          call("AddBatch", "mm", MANUFACTURER, BatchInput("mm", "pm")) >>

InitShared ==
    /\ storeFails = FALSE
    /\ ledger = << >>
    /\ history = << >>
    /\ txCount = 0
    /\ last = Idle
    /\ pending = {}
    /\ version = << >>
    /\ loop = NoLoop

\* the next invocation of the setup, once the previous one was answered
SharedSetupCall ==
    /\ txCount < Len(SharedSetup)
    /\ last = Idle
    /\ LET c == SharedSetup[txCount + 1]
       IN Invoke(c.op, c.cert, c.in, Run(ledger, c.op, c.cert, c.in))

CanInvoke ==
    /\ txCount >= Len(SharedSetup)
    /\ txCount < Len(SharedSetup) + MaxSharedTx
    /\ last = Idle

SharedAdminInputs == {PartyInput("a2", VACCINE_CHAIN_ADMIN), PartyInput("m2", MANUFACTURER)}
SharedEntityInputs == {PartyInput("a2", VACCINE_CHAIN_ADMIN), PartyInput("c1", CHEMIST)}
SharedProductInputs == {ProductInput("p", 5, 3)}
SharedBatchInputs == {BatchInput("", "p"), BatchInput("", "pm")}
SharedShipments == {[customerId |-> "d1", cartonId |-> "B0_C1", perUnitSellingPrice |-> 7]}
SharedSales == {[customerId |-> "x1", packetId |-> k] : k \in {"m_B0_C1_P1", "mm_B0_C1_P1"}}

SharedVaccineChainAdmin ==
    /\ CanInvoke
    /\ \E cert \in SharedCerts, in \in SharedAdminInputs :
         Invoke("VaccineChainAdmin", cert, in, VaccineChainAdmin(ledger, cert, in, "none"))

SharedAddEntity ==
    /\ CanInvoke
    /\ \E cert \in SharedCerts, in \in SharedEntityInputs :
         Invoke("AddEntity", cert, in, AddEntity(ledger, cert, in, "none"))

SharedAddProduct ==
    /\ CanInvoke
    /\ \E cert \in SharedCerts, in \in SharedProductInputs :
         Invoke("AddProduct", cert, in, AddProduct(ledger, cert, in, "none"))

SharedAddBatch ==
    /\ CanInvoke
    /\ \E cert \in SharedCerts, in \in SharedBatchInputs :
         Invoke("AddBatch", cert, in, AddBatch(ledger, cert, in, "none"))

SharedShipToDistributor ==
    /\ CanInvoke
    /\ \E cert \in SharedCerts, in \in SharedShipments :
      \E lastKey \in LastKeys([owner |-> cert.name, cartonId |-> in.cartonId]) :
         Invoke("ShipToDistributor", cert, in,
                ShipToDistributor(ledger, cert, in, lastKey, "none", GetTxID(txCount)))

SharedShipToCustomer ==
    /\ CanInvoke
    /\ \E cert \in SharedCerts, in \in SharedSales :
      \E lastKey \in LastKeys([owner |-> cert.name, id |-> in.packetId]) :
         Invoke("ShipToCustomer", cert, in,
                ShipToCustomer(ledger, cert, in, lastKey, "none", GetTxID(txCount)))

SharedGetAssetByEntity ==
    /\ CanInvoke
    /\ \E cert \in SharedCerts :
         View("GetAssetByEntity", cert, NoInput, GetAssetByEntity(ledger, cert))

NextShared ==
    \/ SharedSetupCall
    \/ SharedVaccineChainAdmin
    \/ SharedAddEntity
    \/ SharedAddProduct
    \/ SharedAddBatch
    \/ SharedShipToDistributor
    \/ SharedShipToCustomer
    \/ SharedGetAssetByEntity
    \/ Respond

SpecShared == InitShared /\ [][NextShared]_vars

\* C31 (as claimed): AddEntity creates only manufacturer, distributor or
\* chemist records, VaccineChainAdmin creates only administrator records,
\* and an administrator record comes into existence only in a
\* VaccineChainAdmin call of the super-administrator.
C31_AdminsOnlyBySuperAdmin ==
    [][/\ (last'.op = "AddEntity" /\ last'.ok) =>
             last'.in.docType \in {MANUFACTURER, DISTRIBUTER, CHEMIST}
       /\ (last'.op = "VaccineChainAdmin" /\ last'.ok) =>
             last'.in.docType = VACCINE_CHAIN_ADMIN
       /\ \A k \in DOMAIN ledger' \ DOMAIN ledger :
             (~IsFlat(k) /\ k[2] = VACCINE_CHAIN_ADMIN) =>
                 (last'.op = "VaccineChainAdmin" /\ last'.name = SUPER_ADMIN)]_vars

\* the record stored under the key the chaincode builds for a unit's product
ResolvedProduct(l, u) == GetState(l, CompositeKey(u.productId \o u.manufacturerId, ITEM))

\* C37 (as claimed): AddProduct is refused as already existing only when the
\* caller itself has a product stored with the request's id; a successful
\* AddBatch has resolved a product that the caller registered under the
\* requested product id, and its new units carry that product id; a
\* successful transfer has resolved, for a matched unit, a product whose id
\* and owner are the unit's productId and manufacturerId.
C37_ProductsNeverCollide ==
    [][/\ (last'.op = "AddProduct" /\ last'.err = "AlreadyExists") =>
             ProductsOf(ledger, last'.in.id, last'.name) # {}
       /\ (last'.op = "AddBatch" /\ last'.ok) =>
             /\ ProductsOf(ledger, last'.in.productId, last'.name) # {}
             /\ \A k \in Units(ledger') \ Units(ledger) :
                   ledger'[k].productId = last'.in.productId
       /\ (last'.op \in Transfers /\ last'.ok) =>
             \E k \in MatchingUnits(ledger, last'.op, last'.name, last'.in) :
                /\ ~IsNil(ResolvedProduct(ledger, ledger[k]))
                /\ ResolvedProduct(ledger, ledger[k]).id = ledger[k].productId
                /\ ResolvedProduct(ledger, ledger[k]).owner = ledger[k].manufacturerId]_vars

\* C36 (as claimed): the units matched by a successful transfer all carry
\* the same product id and the same manufacturer id.
C36_MatchedUnitsShareProduct ==
    [][(last'.op \in Transfers /\ last'.ok) =>
          \A k1, k2 \in MatchingUnits(ledger, last'.op, last'.name, last'.in) :
             /\ ledger[k1].productId = ledger[k2].productId
             /\ ledger[k1].manufacturerId = ledger[k2].manufacturerId]_vars

\* the role under which the holder of a unit received it
HolderRole(u) ==
    CASE u.status = ReadyForDistribution -> MANUFACTURER
      [] u.status = ReceivedAtDistributor -> DISTRIBUTER
      [] u.status = ChemistInventoryReceived -> CHEMIST
      [] OTHER -> ""

\* C39 (as claimed): a transfer changes a unit only when the caller's id is
\* the unit's owner and the caller's role is the role under which the owner
\* received it; GetAssetByEntity returns only units the caller holds under
\* its own role.
C39_OnlyTheHolderTransfers ==
    [][/\ (last'.op \in Transfers /\ last'.ok) =>
             \A k \in Units(ledger) :
                ledger'[k] # ledger[k] =>
                    /\ ledger[k].owner = last'.name
                    /\ HolderRole(ledger[k]) = last'.role
       /\ (last'.op = "GetAssetByEntity" /\ last'.ok) =>
             \A u \in last'.out : /\ u.owner = last'.name
                                  /\ HolderRole(u) = last'.role]_vars
====
